---- MODULE Spec2Model ----
(***************************************************************************)
(* Verification model of the Antigravity-Manager request-dispatch engine:  *)
(*   - the account store          (server/src/core/services/account.rs)    *)
(*   - the warm-up scheduler      (server/src/core/scheduler.rs)           *)
(*   - the OpenAI dispatch loop   (src-tauri/src/proxy/handlers/openai.rs) *)
(*   - the token manager          (server/src/proxy/token_manager.rs)      *)
(*   - the rate-limit tracker     (server/src/proxy/rate_limit.rs)         *)
(*   - the OpenAI SSE stream      (src-tauri/.../openai/streaming.rs)      *)
(*   - the proxy log store        (server/src/proxy/log_store.rs)          *)
(*   - the Claude tool-loop fix   (server/.../claude/thinking_utils.rs)    *)
(*   - the upstream envelope      (gemini/wrapper.rs, openai/request.rs)   *)
(*   - the manual warm-up         (server/src/core/quota.rs)               *)
(*   - the proxy service manager  (src-tauri/src/core/services/proxy.rs)   *)
(* Each component has its own specification over the shared variables.     *)
(***************************************************************************)
EXTENDS Integers, Sequences, FiniteSets, TLC

VARIABLES
    accounts,       \* rows of the `accounts` table (the account store)
    acctOp,         \* the last AccountService call and its outcome
    acctCalls,      \* AccountService calls running concurrently, by task
    WARM_HISTORY,   \* scheduler.rs: "email:model:100" -> timestamp
    schedNow,       \* wall clock of the scheduler (Utc::now().timestamp())
    schedPass,      \* what the last scheduler pass observed and enqueued
    poolFiles,      \* src-tauri TokenManager.tokens (accounts of the desktop pool)
    rrIndex,        \* src-tauri TokenManager.current_index
    reqs,           \* in-flight client requests of handle_chat_completions
    tokens,         \* server TokenManager.tokens: account_id -> ProxyToken
    current_index,  \* server TokenManager.current_index
    last_used_account, \* server TokenManager.last_used_account
    limits,         \* RateLimitTracker.limits: key -> reset_time
    session_accounts,  \* server TokenManager.session_accounts
    sticky_config,  \* server TokenManager.sticky_config
    now,            \* clock of the proxy process, in ticks
    call,           \* the get_token call in progress / last finished
    loading,        \* the load_accounts call in progress: the rows it has read
    parked,         \* a second get_token call in flight, not running right now
    picked,         \* how often each account was returned in the current run of
                    \* get_token(force_rotate = true) calls
    info,           \* the last call on the RateLimitTracker: its arguments and the
                    \* RateLimitInfo it returned
    sse,            \* a create_openai_sse_stream stream: the upstream bytes, the
                    \* line buffer and the events emitted so far
    logs,           \* the proxy_logs table and the tasks spawned by LogStore::record
    selected,       \* how often the get_token call in progress (or the last one)
                    \* ran its selection and selected each account
    warmup,         \* a warm_up_all_accounts call: its retry_count, the passes it
                    \* ran and what the last pass collected
    proxy           \* ProxyServiceManager.instance, its write lock, the server
                    \* tasks alive and the start/stop/status calls in progress

acctVars == <<accounts, acctOp, acctCalls>>
schedVars == <<WARM_HISTORY, schedNow, schedPass>>
dispVars == <<poolFiles, rrIndex, reqs>>
tmVars == <<tokens, current_index, last_used_account, limits, session_accounts,
            sticky_config, now, call>>
auxVars == <<loading, parked, picked, info, sse, logs, selected, warmup, proxy>>
vars == <<accounts, acctOp, acctCalls, WARM_HISTORY, schedNow, schedPass, poolFiles, rrIndex,
          reqs, tokens, current_index, last_used_account, limits, session_accounts,
          sticky_config, now, call, loading, parked, picked, info, sse, logs,
          selected, warmup, proxy>>

NULL == "NULL"

(***************************************************************************)
(* Bounds of the model                                                     *)
(***************************************************************************)
MaxIds == 3
MaxBatch == 2

Ids == 1..MaxIds
Emails == {"e1", "e2", "e3"}

(***************************************************************************)
(* Account store: AccountService over the `accounts` table                 *)
(***************************************************************************)
\* A row as add_account inserts it: is_current takes the column default FALSE.
NewRow(id, email) ==
    [id |-> id, email |-> email, is_current |-> FALSE, disabled |-> FALSE,
     expiry_timestamp |-> 0, has_project |-> FALSE, subscription_tier |-> NULL]

RowIds(rows) == {r.id : r \in rows}

\* UPDATE accounts SET is_current = 1 WHERE id = ?
SetCurrent(rows, id) ==
    {IF r.id = id THEN [r EXCEPT !.is_current = TRUE] ELSE r : r \in rows}

\* UPDATE accounts SET is_current = 0
ClearCurrent(rows) == {[r EXCEPT !.is_current = FALSE] : r \in rows}

\* SELECT EXISTS(SELECT 1 FROM accounts WHERE is_current = 1)
current_exists(rows) == \E r \in rows : r.is_current

\* add_account, lines 100-112: the first account of the store becomes current.
MarkFirstIfOnly(rows, id) ==
    IF Cardinality(rows) = 1 THEN SetCurrent(rows, id) ELSE rows

\* add_account: the stores it can leave, {} standing for Err (email taken).
\* The fresh UUID is any id not in the table.
add_account(rows, email) ==
    IF \E r \in rows : r.email = email
    THEN {}
    ELSE {MarkFirstIfOnly(rows \cup {NewRow(id, email)}, id) : id \in Ids \ RowIds(rows)}

\* upsert_account: an existing email only has its token, name and last_used
\* replaced (no column of the model changes); otherwise add_account.
upsert_account(rows, email) ==
    IF \E r \in rows : r.email = email THEN {rows} ELSE add_account(rows, email)

\* Faulty variant of PromoteIfNoCurrent: deleting the current account promotes nobody.
PromoteNever(rows) == {rows}

\* delete_account, lines 177-191: UPDATE ... WHERE id IN (SELECT id FROM accounts
\* LIMIT 1); which row LIMIT 1 yields is not fixed by the query.
PromoteIfNoCurrent(rows) ==
    IF current_exists(rows) \/ rows = {}
    THEN {rows}
    ELSE {SetCurrent(rows, id) : id \in RowIds(rows)}

\* delete_account: the stores it can leave, {} standing for Err (no such account).
delete_account(rows, id) ==
    IF id \notin RowIds(rows)
    THEN {}
    ELSE PromoteIfNoCurrent({r \in rows : r.id # id})

\* delete_accounts: delete_account on each id in turn, errors ignored (.ok()).
RECURSIVE delete_accounts(_, _)
delete_accounts(rows, ids) ==
    IF ids = <<>>
    THEN {rows}
    ELSE LET step == delete_account(rows, Head(ids))
             nexts == IF step = {} THEN {rows} ELSE step
         IN UNION {delete_accounts(n, Tail(ids)) : n \in nexts}

\* switch_account: one transaction clearing is_current everywhere and setting it
\* on id; {} standing for Err (no such account).
switch_account(rows, id) ==
    IF id \notin RowIds(rows) THEN {} ELSE {SetCurrent(ClearCurrent(rows), id)}

CurrentIds(rows) == {r.id : r \in {x \in rows : x.is_current}}

NoOp == [op |-> "none", ok |-> TRUE, wasCurrent |-> FALSE]

\* Concurrent AccountService calls: MaxTasks handler tasks, each making up to
\* MaxTaskCalls calls one after the other.
MaxTasks == 2
MaxTaskCalls == 3
Tasks == 1..MaxTasks

\* A task between calls. email and id are the arguments of the running call,
\* count and exists the results of its SELECTs, n the calls it has made.
IdleTask ==
    [pc |-> "idle", op |-> "none", email |-> NULL, id |-> 0, count |-> 0,
     exists |-> FALSE, n |-> 0]

\* No call is running; fresh is the next Uuid::new_v4 (line 53), never reused.
NoCalls == [task |-> [p \in Tasks |-> IdleTask], fresh |-> 1]

AcctInit ==
    /\ accounts = {}
    /\ acctOp = NoOp
    /\ acctCalls = NoCalls

\* One AccountService call, run to completion.
AcctFinish(op, results, wasCur) ==
    IF results = {}
    THEN /\ accounts' = accounts
         /\ acctOp' = [op |-> op, ok |-> FALSE, wasCurrent |-> wasCur]
    ELSE /\ accounts' \in results
         /\ acctOp' = [op |-> op, ok |-> TRUE, wasCurrent |-> wasCur]

AddAccount ==
    \E e \in Emails : AcctFinish("add_account", add_account(accounts, e), FALSE)

UpsertAccount ==
    \E e \in Emails : AcctFinish("upsert_account", upsert_account(accounts, e), FALSE)

DeleteAccount ==
    \E id \in Ids :
        AcctFinish("delete_account", delete_account(accounts, id),
                   id \in CurrentIds(accounts))

BatchIds == UNION {[1..n -> Ids] : n \in 0..MaxBatch}

DeleteAccounts ==
    \E ids \in BatchIds :
        AcctFinish("delete_accounts", delete_accounts(accounts, ids),
                   \E i \in 1..Len(ids) : ids[i] \in CurrentIds(accounts))

SwitchAccount ==
    \E id \in Ids :
        AcctFinish("switch_account", switch_account(accounts, id),
                   id \in CurrentIds(accounts))

AcctNext ==
    \/ AddAccount /\ UNCHANGED <<acctCalls, schedVars, dispVars, tmVars, auxVars>>
    \/ UpsertAccount /\ UNCHANGED <<acctCalls, schedVars, dispVars, tmVars, auxVars>>
    \/ DeleteAccount /\ UNCHANGED <<acctCalls, schedVars, dispVars, tmVars, auxVars>>
    \/ DeleteAccounts /\ UNCHANGED <<acctCalls, schedVars, dispVars, tmVars, auxVars>>
    \/ SwitchAccount /\ UNCHANGED <<acctCalls, schedVars, dispVars, tmVars, auxVars>>

(***************************************************************************)
(* Account store under concurrent calls: each SQL statement is one step,   *)
(* switch_account's transaction (lines 219-237) is one step.               *)
(***************************************************************************)
\* The call of task p returns: the task is idle again.
TaskReturns(p) ==
    [acctCalls EXCEPT !.task[p] = [IdleTask EXCEPT !.n = acctCalls.task[p].n]]

TaskAt(p, pc) == acctCalls.task[p].pc = pc

TaskCanCall(p) == TaskAt(p, "idle") /\ acctCalls.task[p].n < MaxTaskCalls

\* delete_account, lines 185-187: the UPDATE run when the EXISTS query found no
\* current account; which row LIMIT 1 yields is not fixed by the query.
PromoteFirst(rows) ==
    IF rows = {} THEN {rows} ELSE {SetCurrent(rows, id) : id \in RowIds(rows)}

\* add_account, lines 43-53: the call starts, SELECT id WHERE email = ?.
ConcAddCheck(p) ==
    /\ TaskCanCall(p)
    /\ acctCalls.fresh \in Ids
    /\ \E e \in Emails :
        acctCalls' =
            IF \E r \in accounts : r.email = e
            THEN [acctCalls EXCEPT !.task[p].n = @ + 1]
            ELSE [acctCalls EXCEPT
                     !.task[p] = [IdleTask EXCEPT !.pc = "insert", !.op = "add_account",
                                     !.email = e, !.id = acctCalls.fresh, !.n = acctCalls.task[p].n + 1],
                     !.fresh = @ + 1]
    /\ UNCHANGED <<accounts, acctOp>>

\* add_account, lines 80-98: the INSERT; email is UNIQUE (db.rs line 45).
ConcAddInsert(p) ==
    /\ TaskAt(p, "insert")
    /\ LET c == acctCalls.task[p] IN
        IF \E r \in accounts : r.email = c.email
        THEN /\ acctCalls' = TaskReturns(p)
             /\ UNCHANGED accounts
        ELSE /\ accounts' = accounts \cup {NewRow(c.id, c.email)}
             /\ acctCalls' = [acctCalls EXCEPT !.task[p].pc = "count"]
    /\ UNCHANGED acctOp

\* add_account, lines 101-104: SELECT COUNT(*)
ConcAddCount(p) ==
    /\ TaskAt(p, "count")
    /\ acctCalls' = [acctCalls EXCEPT !.task[p].pc = "mark",
                                      !.task[p].count = Cardinality(accounts)]
    /\ UNCHANGED <<accounts, acctOp>>

\* add_account, lines 106-118: the UPDATE if the count was 1, and the return.
ConcAddMark(p) ==
    /\ TaskAt(p, "mark")
    /\ accounts' = IF acctCalls.task[p].count = 1
                   THEN SetCurrent(accounts, acctCalls.task[p].id)
                   ELSE accounts
    /\ acctCalls' = TaskReturns(p)
    /\ UNCHANGED acctOp

\* delete_account, line 169: the call starts, load_account.
ConcDeleteLoad(p) ==
    /\ TaskCanCall(p)
    /\ \E id \in Ids :
        acctCalls' =
            IF id \notin RowIds(accounts)
            THEN [acctCalls EXCEPT !.task[p].n = @ + 1]
            ELSE [acctCalls EXCEPT
                     !.task[p] = [IdleTask EXCEPT !.pc = "delete", !.op = "delete_account",
                                     !.id = id, !.n = acctCalls.task[p].n + 1]]
    /\ UNCHANGED <<accounts, acctOp>>

\* delete_account, lines 171-175: the DELETE
ConcDelete(p) ==
    /\ TaskAt(p, "delete")
    /\ accounts' = {r \in accounts : r.id # acctCalls.task[p].id}
    /\ acctCalls' = [acctCalls EXCEPT !.task[p].pc = "exists"]
    /\ UNCHANGED acctOp

\* delete_account, lines 178-182: SELECT EXISTS(... is_current = 1)
ConcDeleteExists(p) ==
    /\ TaskAt(p, "exists")
    /\ acctCalls' = [acctCalls EXCEPT !.task[p].pc = "promote",
                                      !.task[p].exists = current_exists(accounts)]
    /\ UNCHANGED <<accounts, acctOp>>

\* delete_account, lines 184-194: the UPDATE if none was current, and the return.
ConcDeletePromote(p) ==
    /\ TaskAt(p, "promote")
    /\ accounts' \in (IF acctCalls.task[p].exists THEN {accounts} ELSE PromoteFirst(accounts))
    /\ acctCalls' = TaskReturns(p)
    /\ UNCHANGED acctOp

\* switch_account, line 217: the call starts, load_account.
ConcSwitchLoad(p) ==
    /\ TaskCanCall(p)
    /\ \E id \in Ids :
        acctCalls' =
            IF id \notin RowIds(accounts)
            THEN [acctCalls EXCEPT !.task[p].n = @ + 1]
            ELSE [acctCalls EXCEPT
                     !.task[p] = [IdleTask EXCEPT !.pc = "tx", !.op = "switch_account",
                                     !.id = id, !.n = acctCalls.task[p].n + 1]]
    /\ UNCHANGED <<accounts, acctOp>>

\* switch_account, lines 219-240: the transaction, committed as one, and the
\* return. The UPDATE ... WHERE id = ? touches no row if id is gone by now.
ConcSwitchTx(p) ==
    /\ TaskAt(p, "tx")
    /\ accounts' = SetCurrent(ClearCurrent(accounts), acctCalls.task[p].id)
    /\ acctCalls' = TaskReturns(p)
    /\ UNCHANGED acctOp

ConcNext ==
    \/ \E p \in Tasks : ConcAddCheck(p) /\ UNCHANGED <<schedVars, dispVars, tmVars, auxVars>>
    \/ \E p \in Tasks : ConcAddInsert(p) /\ UNCHANGED <<schedVars, dispVars, tmVars, auxVars>>
    \/ \E p \in Tasks : ConcAddCount(p) /\ UNCHANGED <<schedVars, dispVars, tmVars, auxVars>>
    \/ \E p \in Tasks : ConcAddMark(p) /\ UNCHANGED <<schedVars, dispVars, tmVars, auxVars>>
    \/ \E p \in Tasks : ConcDeleteLoad(p) /\ UNCHANGED <<schedVars, dispVars, tmVars, auxVars>>
    \/ \E p \in Tasks : ConcDelete(p) /\ UNCHANGED <<schedVars, dispVars, tmVars, auxVars>>
    \/ \E p \in Tasks : ConcDeleteExists(p) /\ UNCHANGED <<schedVars, dispVars, tmVars, auxVars>>
    \/ \E p \in Tasks : ConcDeletePromote(p) /\ UNCHANGED <<schedVars, dispVars, tmVars, auxVars>>
    \/ \E p \in Tasks : ConcSwitchLoad(p) /\ UNCHANGED <<schedVars, dispVars, tmVars, auxVars>>
    \/ \E p \in Tasks : ConcSwitchTx(p) /\ UNCHANGED <<schedVars, dispVars, tmVars, auxVars>>

(***************************************************************************)
(* Warm-up scheduler: start_scheduler's loop body, one pass per tick       *)
(***************************************************************************)
ScanInterval == 600
HistoryRetention == 86400
FullQuota == 100
MaxPasses == 3
MaxPassesDay == 146

QuotaModels == {"gemini-3-flash", "gemini-2.5-flash", "gemini-2.5-pro"}
Percentages == {50, 100}
SweepDelays == {0, 2}

\* scheduler.rs line 76: history_key = "email:model:100"
history_key(email, name) == <<email, name>>

\* scheduler.rs lines 96-100
model_to_ping(name) == IF name = "gemini-2.5-flash" THEN "gemini-3-flash" ELSE name

\* scheduler.rs lines 103-105
Whitelist == {"gemini-3-flash", "claude-sonnet-4-5", "gemini-3-pro-high",
              "gemini-3-pro-image"}

\* What fetch_quota answers for one account: Err, or the listed models with
\* their percentage.
QuotaAnswers(models) ==
    {[ok |-> FALSE, pct |-> <<>>]} \cup
    {[ok |-> TRUE, pct |-> f] : f \in UNION {[m -> Percentages] : m \in SUBSET models}}

Listed(ans) == IF ans.ok THEN DOMAIN ans.pct ELSE {}

\* scheduler.rs lines 81-87: already warmed in this 100% cycle.
SkipWarmed(hist, key) == key \in DOMAIN hist

\* Faulty variant of ClearsHistory: an observation below 100 leaves the history alone.
ClearsNever(pct) == FALSE

\* scheduler.rs line 121: an observation below 100 clears the history entry.
ClearsHistory(pct) == pct < FullQuota

\* The keys whose history entry the scan of one pass inserts.
Inserted(hist, q) ==
    {k \in (DOMAIN q) \X QuotaModels :
        /\ k[2] \in Listed(q[k[1]])
        /\ q[k[1]].pct[k[2]] = FullQuota
        /\ ~SkipWarmed(hist, history_key(k[1], k[2]))}

\* The keys whose history entry the scan of one pass removes.
Cleared(hist, q) ==
    {k \in (DOMAIN q) \X QuotaModels :
        /\ k[2] \in Listed(q[k[1]])
        /\ ClearsHistory(q[k[1]].pct[k[2]])}

\* scheduler.rs lines 75-131: the history after the scan at time ts.
ScanHistory(hist, q, ts) ==
    LET ins == Inserted(hist, q)
        keep == (DOMAIN hist \ Cleared(hist, q)) \cup ins
    IN [k \in keep |-> IF k \in ins THEN ts ELSE hist[k]]

\* scheduler.rs lines 102-120: the warm-up tasks of one pass, by quota-model key.
Enqueued(hist, q) == {k \in Inserted(hist, q) : model_to_ping(k[2]) \in Whitelist}

\* Faulty variant of SweepHistory: the sweep keeps nothing older than one scan interval.
SweepEager(hist, t) ==
    LET keep == {k \in DOMAIN hist : hist[k] > t - ScanInterval}
    IN [k \in keep |-> hist[k]]

\* scheduler.rs lines 162-168: history.retain(|_, ts| ts > now - 86400)
SweepHistory(hist, t) ==
    LET keep == {k \in DOMAIN hist : hist[k] > t - HistoryRetention}
    IN [k \in keep |-> hist[k]]

SchedEmails == {r.email : r \in accounts}
SchedKeys == SchedEmails \X schedPass.models

\* The class of one observation: "full" (= 100), "below" (< 100), "none".
ObsOf(q, k) ==
    IF k[1] \in DOMAIN q /\ k[2] \in Listed(q[k[1]])
    THEN (IF q[k[1]].pct[k[2]] = FullQuota THEN "full" ELSE "below")
    ELSE "none"

\* schedPass: the models the quota API knows, the pass limit of the run, the
\* number of passes so far, and per key: the last observation before this pass
\* (prev), this pass's observation (obs), whether it enqueued a task (enq), the
\* time of the observation that began the current run at 100 (since), and
\* whether every pass so far observed it at 100 (steady).
SchedInitOver(rows, models, limit) ==
    /\ accounts = rows
    /\ WARM_HISTORY = <<>>
    /\ schedNow = 0
    /\ schedPass = [models |-> models, limit |-> limit, n |-> 0,
                    prev |-> [k \in {r.email : r \in rows} \X models |-> "none"],
                    obs |-> [k \in {r.email : r \in rows} \X models |-> "none"],
                    enq |-> {},
                    since |-> [k \in {r.email : r \in rows} \X models |-> 0],
                    steady |-> [k \in {r.email : r \in rows} \X models |-> TRUE]]

SchedInit(models, limit) == SchedInitOver({NewRow(1, "e1")}, models, limit)

\* The last observation of k up to and including the current pass.
LastObs(p, k) == IF p.obs[k] = "none" THEN p.prev[k] ELSE p.obs[k]

\* A tick on which the loop `continue`s at once: warm-up disabled (line 29) or
\* list_accounts failed (line 39).
SchedSkip ==
    /\ schedPass.n < schedPass.limit
    /\ schedNow' = schedNow + ScanInterval
    /\ schedPass' = [schedPass EXCEPT !.n = @ + 1,
                        !.prev = [k \in SchedKeys |-> LastObs(schedPass, k)],
                        !.obs = [k \in SchedKeys |-> "none"],
                        !.enq = {},
                        !.steady = [k \in SchedKeys |-> FALSE]]
    /\ UNCHANGED WARM_HISTORY

\* A full pass: scan every account, enqueue, run the tasks, sweep.
SchedScan ==
    /\ schedPass.n < schedPass.limit
    /\ \E q \in [SchedEmails -> QuotaAnswers(schedPass.models)], d \in SweepDelays :
        LET t == schedNow + ScanInterval
            prev == [k \in SchedKeys |-> LastObs(schedPass, k)]
        IN /\ schedNow' = t
           /\ WARM_HISTORY' = SweepHistory(ScanHistory(WARM_HISTORY, q, t), t + d)
           /\ schedPass' = [schedPass EXCEPT !.n = @ + 1,
                   !.prev = prev,
                   !.obs = [k \in SchedKeys |-> ObsOf(q, k)],
                   !.enq = Enqueued(WARM_HISTORY, q),
                   !.since = [k \in SchedKeys |->
                                IF ObsOf(q, k) = "full" /\ prev[k] # "full"
                                THEN t ELSE schedPass.since[k]],
                   !.steady = [k \in SchedKeys |->
                                 schedPass.steady[k] /\ ObsOf(q, k) = "full"]]

SchedNext ==
    \/ SchedSkip /\ UNCHANGED <<acctVars, dispVars, tmVars, auxVars>>
    \/ SchedScan /\ UNCHANGED <<acctVars, dispVars, tmVars, auxVars>>

(***************************************************************************)
(* OpenAI dispatch handler (src-tauri): handle_chat_completions over the   *)
(* desktop TokenManager's plain round-robin get_token                      *)
(***************************************************************************)
MaxPool == 2
MaxReqs == 2
MaxIndex == 4

PoolIds == 1..MaxPool
Reqs == 1..MaxReqs

\* What the upstream can answer to one call: a status, or 0 for a transport
\* error.
UpstreamAnswers == {0, 200, 400, 401, 403, 404, 429, 500, 503, 529}

\* openai.rs lines 53-58: call_v1_internal returned Err (no status at all).
IsTransportError(ans) == ans = 0

\* The statuses the specification lists as rotation-eligible (sections 4.9, 7).
RotationEligible == {401, 403, 404, 429, 500, 503, 529}

\* openai.rs line 97: the statuses on which the loop rotates.
RotatesOn(status) == status \in {429, 404, 403, 401}

\* The pool in DashMap iteration order (fixed for a given content).
RECURSIVE SeqOfSet(_)
SeqOfSet(S) ==
    IF S = {} THEN <<>>
    ELSE LET m == CHOOSE x \in S : \A y \in S : x <= y
         IN <<m>> \o SeqOfSet(S \ {m})

\* src-tauri token_manager.rs line 418
pool_len(pool) == Cardinality(DOMAIN pool)

\* openai.rs line 22
max_attempts(pool) == IF pool_len(pool) > 1 THEN pool_len(pool) ELSE 1

IdleReq == [pc |-> "idle", attempt |-> 0, max |-> 0, sent |-> <<>>,
            answers |-> <<>>, status |-> 0, kind |-> "none"]

DispInit ==
    /\ poolFiles = <<>>
    /\ rrIndex = 0
    /\ reqs = [r \in Reqs |-> IdleReq]

\* load_accounts inserts one account file into the pool (line 107): its token
\* may be near expiry and its project_id may be missing.
LoadPoolAccount ==
    \E id \in PoolIds \ DOMAIN poolFiles, ex \in BOOLEAN, pj \in BOOLEAN :
        /\ poolFiles' = poolFiles @@ (id :> [expired |-> ex, project |-> pj])
        /\ UNCHANGED <<rrIndex, reqs>>

\* handle_chat_completions up to the loop (lines 14-24).
StartRequest(r) ==
    /\ reqs[r].pc = "idle"
    /\ reqs' = [reqs EXCEPT ![r] = [IdleReq EXCEPT !.pc = "loop",
                                        !.max = max_attempts(poolFiles)]]
    /\ UNCHANGED <<poolFiles, rrIndex>>

\* The request ends with a response to the client.
Respond(r, status, kind, sent, answers) ==
    reqs' = [reqs EXCEPT ![r] = [@ EXCEPT !.pc = "done", !.status = status,
                 !.kind = kind, !.sent = sent, !.answers = answers,
                 !.attempt = Len(sent)]]

\* The attempt failed in a way the loop rotates on (`continue`): the next
\* iteration, or the 429 after the loop (line 112).
Rotate(r, sent, answers) ==
    IF reqs[r].attempt + 1 >= reqs[r].max
    THEN reqs' = [reqs EXCEPT ![r] = [@ EXCEPT !.pc = "done", !.status = 429,
                      !.kind = "exhausted", !.sent = sent, !.answers = answers,
                      !.attempt = @ + 1]]
    ELSE reqs' = [reqs EXCEPT ![r] = [@ EXCEPT !.sent = sent, !.answers = answers,
                      !.attempt = @ + 1]]

\* One iteration of the loop (lines 26-109): get_token (src-tauri
\* token_manager.rs lines 187-272), the upstream call and the dispatch on its
\* answer.
Attempt(r) ==
    /\ reqs[r].pc = "loop"
    /\ rrIndex < MaxIndex
    /\ LET total == pool_len(poolFiles) IN
       IF total = 0
       THEN \* "Token pool is empty" -> 503 (line 32)
            /\ reqs' = [reqs EXCEPT ![r] = [@ EXCEPT !.pc = "done", !.status = 503,
                            !.kind = "token_error_empty"]]
            /\ UNCHANGED <<poolFiles, rrIndex>>
       ELSE LET idx == rrIndex % total
                acc == SeqOfSet(DOMAIN poolFiles)[idx + 1]
                tok == poolFiles[acc]
            IN /\ rrIndex' = rrIndex + 1
               /\ \E refreshOk \in BOOLEAN, projectOk \in BOOLEAN, ans \in UpstreamAnswers,
                     parseOk \in BOOLEAN :
                    IF tok.expired /\ ~refreshOk
                    THEN \* refresh failed -> get_token Err -> 503
                         /\ reqs' = [reqs EXCEPT ![r] = [@ EXCEPT !.pc = "done",
                                        !.status = 503, !.kind = "token_error"]]
                         /\ UNCHANGED poolFiles
                    ELSE IF ~tok.project /\ ~projectOk
                    THEN \* fetch_project_id failed -> get_token Err -> 503
                         /\ reqs' = [reqs EXCEPT ![r] = [@ EXCEPT !.pc = "done",
                                        !.status = 503, !.kind = "token_error"]]
                         /\ poolFiles' = [poolFiles EXCEPT ![acc].expired = FALSE]
                    ELSE /\ poolFiles' = [poolFiles EXCEPT ![acc] =
                                            [expired |-> FALSE, project |-> TRUE]]
                         /\ LET sent == Append(reqs[r].sent, acc)
                                answers == Append(reqs[r].answers, ans)
                            IN IF IsTransportError(ans)
                               THEN Rotate(r, sent, answers)
                               ELSE IF ans = 200
                               THEN IF parseOk
                                    THEN Respond(r, 200, "ok", sent, answers)
                                    ELSE Respond(r, 502, "parse_error", sent, answers)
                               ELSE IF RotatesOn(ans)
                               THEN Rotate(r, sent, answers)
                               ELSE Respond(r, ans, "upstream", sent, answers)

DispNext ==
    \/ LoadPoolAccount /\ UNCHANGED <<acctVars, schedVars, tmVars, auxVars>>
    \/ \E r \in Reqs : StartRequest(r) /\ UNCHANGED <<acctVars, schedVars, tmVars, auxVars>>
    \/ \E r \in Reqs : Attempt(r) /\ UNCHANGED <<acctVars, schedVars, tmVars, auxVars>>

(***************************************************************************)
(* Rate-limit tracker (server/src/proxy/rate_limit.rs). Times are in       *)
(* ticks, TicksPerSec ticks to the second, so that Duration::as_secs       *)
(* truncates.                                                              *)
(***************************************************************************)
TicksPerSec == 2

as_secs(d) == d \div TicksPerSec
from_secs(n) == n * TicksPerSec

Max2(a, b) == IF a >= b THEN a ELSE b

\* Faulty variant of LimitKey: the model is left out of the key.
AccountKey(account, model) == account

\* rate_limit.rs lines 95-99 and 247-251: the key of an entry,
\* format!("{}:{}", account_id, m), or the account id when no model is given
\* (model NULL).
LimitKey(account, model) ==
    IF model = NULL THEN account ELSE account \o ":" \o model

\* Faulty variant of ActiveEntry: an entry counts whatever its reset_time.
EntryPresent(lim, t, key) == key \in DOMAIN lim

\* An entry whose reset_time is still ahead of t.
ActiveEntry(lim, t, key) == key \in DOMAIN lim /\ lim[key] > t

\* rate_limit.rs lines 469-488
is_rate_limited(lim, t, account, model) ==
    \/ ActiveEntry(lim, t, LimitKey(account, NULL))
    \/ model # NULL /\ ActiveEntry(lim, t, LimitKey(account, model))

WaitOf(lim, t, key) == IF ActiveEntry(lim, t, key) THEN as_secs(lim[key] - t) ELSE 0

\* Faulty variant of get_remaining_wait: the model-level entry is not looked up.
remaining_wait_of_account(lim, t, account, model) ==
    WaitOf(lim, t, LimitKey(account, NULL))

\* rate_limit.rs lines 53-85
get_remaining_wait(lim, t, account, model) ==
    Max2(WaitOf(lim, t, LimitKey(account, NULL)),
         IF model # NULL THEN WaitOf(lim, t, LimitKey(account, model)) ELSE 0)

\* rate_limit.rs lines 491-498: Some(wait) as {wait}, None as {}.
get_reset_seconds(lim, t, account, model) ==
    LET wait == get_remaining_wait(lim, t, account, model)
    IN IF wait > 0 THEN {wait} ELSE {}

\* rate_limit.rs lines 200-234: the default lockout of each reason.
DefaultRetry(reason) ==
    CASE reason = "QuotaExhausted" -> 3600
      [] reason = "RateLimitExceeded" -> 30
      [] reason = "ServerError" -> 20
      [] reason = "ModelCapacityExhausted" -> 120
      [] OTHER -> 60

\* Faulty variant of retry_sec: the parsed delay is taken as it is.
retry_sec_unbuffered(status, hdr, body, bodyReason) ==
    LET reason == IF status = 429 THEN bodyReason ELSE "ServerError"
        parsed == IF hdr # {} THEN hdr ELSE body
    IN IF parsed # {} THEN CHOOSE x \in parsed : TRUE ELSE DefaultRetry(reason)

\* Faulty variant of retry_sec: the body is consulted before the header.
retry_sec_body_first(status, hdr, body, bodyReason) ==
    LET reason == IF status = 429 THEN bodyReason ELSE "ServerError"
        parsed == IF body # {} THEN body ELSE hdr
    IN IF parsed # {}
       THEN LET s == CHOOSE x \in parsed : TRUE IN IF s < 2 THEN 2 ELSE s
       ELSE DefaultRetry(reason)

\* rate_limit.rs lines 194-236: hdr and body are the parsed Retry-After header
\* and the delay parsed from the body, {} when there is none.
retry_sec(status, hdr, body, bodyReason) ==
    LET reason == IF status = 429 THEN bodyReason ELSE "ServerError"
        parsed == IF hdr # {} THEN hdr ELSE body
    IN IF parsed # {}
       THEN LET s == CHOOSE x \in parsed : TRUE IN IF s < 2 THEN 2 ELSE s
       ELSE DefaultRetry(reason)

\* Faulty variant of parse_from_error: an entry is stored whatever the status.
parse_from_error_any_status(lim, t, account, status, hdr, body, bodyReason, model) ==
    LET key == LimitKey(account, model)
        reset == t + from_secs(retry_sec(status, hdr, body, bodyReason))
    IN [k \in DOMAIN lim \cup {key} |-> IF k = key THEN reset ELSE lim[k]]

\* rate_limit.rs lines 159-275: the map after parse_from_error.
parse_from_error(lim, t, account, status, hdr, body, bodyReason, model) ==
    IF status # 429 /\ status # 500 /\ status # 503 /\ status # 529
    THEN lim
    ELSE LET key == LimitKey(account, model)
             reset == t + from_secs(retry_sec(status, hdr, body, bodyReason))
         IN [k \in DOMAIN lim \cup {key} |-> IF k = key THEN reset ELSE lim[k]]

\* rate_limit.rs lines 238-244 and 273: the RateLimitInfo parse_from_error
\* returns, {} for None.
parse_from_error_info(t, status, hdr, body, bodyReason, model) ==
    IF status # 429 /\ status # 500 /\ status # 503 /\ status # 529
    THEN {}
    ELSE LET sec == retry_sec(status, hdr, body, bodyReason)
         IN {[reset_time |-> t + from_secs(sec), retry_after_sec |-> sec,
              detected_at |-> t,
              reason |-> IF status = 429 THEN bodyReason ELSE "ServerError",
              model |-> model]}

\* rate_limit.rs lines 88-112: the map after set_lockout_until.
set_lockout_until(lim, account, reset_time, model) ==
    LET key == LimitKey(account, model)
    IN [k \in DOMAIN lim \cup {key} |-> IF k = key THEN reset_time ELSE lim[k]]

\* rate_limit.rs lines 502-520: the map after cleanup_expired.
cleanup_expired(lim, t) ==
    [k \in {x \in DOMAIN lim : lim[x] > t} |-> lim[k]]

\* rate_limit.rs lines 182-186: retry_after.parse::<u64>() on the header, which
\* is absent, a number of seconds or some other text (an HTTP date).
NoHeader == [kind |-> "absent", n |-> 0]
TextHeader == [kind |-> "text", n |-> 0]
SecondsHeader(n) == [kind |-> "seconds", n |-> n]
header_seconds(h) == IF h.kind = "seconds" THEN {h.n} ELSE {}

\* A duration string of the form (Nh)(Nm)(N[.N]s)(Nms): each part is {} when
\* absent and {N} when present; frac says that the seconds have a fraction.
Duration(h, m, sec, frac, ms) == [h |-> h, m |-> m, s |-> sec, frac |-> frac, ms |-> ms]
PartOf(part) == IF part = {} THEN 0 ELSE CHOOSE n \in part : TRUE

\* rate_limit.rs lines 318-376. The regex tries its groups from the left and
\* each group takes what it can: with no minutes and no seconds part, the
\* minutes group (\d+)m matches the digits and the m of "Nms".
parse_duration_string(d) ==
    LET ms_as_minutes == d.ms # {} /\ d.m = {} /\ d.s = {}
        hours == PartOf(d.h)
        minutes == IF ms_as_minutes THEN PartOf(d.ms) ELSE PartOf(d.m)
        seconds_ceil == PartOf(d.s) + (IF d.s # {} /\ d.frac THEN 1 ELSE 0)
        milliseconds == IF ms_as_minutes THEN 0 ELSE PartOf(d.ms)
        total_seconds == hours * 3600 + minutes * 60 + seconds_ceil
                         + (milliseconds + 999) \div 1000
    IN IF total_seconds = 0 THEN {} ELSE {total_seconds}

\* An error body: whether it parses as JSON, its quotaResetDelay string
\* ({} when absent), its error.retry_after ({} when absent or not a u64), the
\* seconds each of the five text patterns captures (pattern -> seconds, for
\* the patterns that match), its error.details[0].reason string (NULL when
\* absent) and the words its text contains.
Body(json, delay, retry_after, text, reason_str, words) ==
    [json |-> json, delay |-> delay, retry_after |-> retry_after, text |-> text,
     reason_str |-> reason_str, words |-> words]

\* rate_limit.rs lines 414-460: the first pattern that matches.
text_retry_time(text) ==
    IF DOMAIN text = {} THEN {}
    ELSE {text[CHOOSE p \in DOMAIN text : \A q \in DOMAIN text : p <= q]}

\* rate_limit.rs lines 379-461
parse_retry_time_from_body(b) ==
    LET delay == IF b.json
                 THEN UNION {parse_duration_string(d) : d \in b.delay}
                 ELSE {}
    IN IF delay # {} THEN delay
       ELSE IF b.json /\ b.retry_after # {} THEN b.retry_after
       ELSE text_retry_time(b.text)

\* rate_limit.rs lines 277-315
parse_rate_limit_reason(b) ==
    IF b.json /\ b.reason_str # NULL
    THEN CASE b.reason_str = "QUOTA_EXHAUSTED" -> "QuotaExhausted"
           [] b.reason_str = "RATE_LIMIT_EXCEEDED" -> "RateLimitExceeded"
           [] OTHER -> "Unknown"
    ELSE IF "quota" \in b.words
    THEN IF "model_capacity" \in b.words THEN "ModelCapacityExhausted"
         ELSE "QuotaExhausted"
    ELSE IF "rate limit" \in b.words THEN "RateLimitExceeded"
    ELSE "Unknown"

(***************************************************************************)
(* Token manager (server/src/proxy/token_manager.rs)                       *)
(***************************************************************************)
MaxAccounts == 2
MaxTicks == 1
MaxCalls == 3
LastUsedWindow == 60
RefreshSkew == 300
DefaultMaxWait == 60

AccountOrder == <<"a1", "a2", "a3", "a4">>
TMIds == {AccountOrder[i] : i \in 1..MaxAccounts}
Sessions == {"s1"}
QuotaGroups == {"gemini", "image_gen"}
Modes == {"CacheFirst", "Balance", "PerformanceFirst"}
MaxWaitChoices == {DefaultMaxWait}
\* Just under the 2-second minimum lockout, and the last-used window.
TickChoices == {from_secs(2) - 1, from_secs(LastUsedWindow)}
ExpiresIn == 3600

\* The errors the dispatch layer reports to mark_rate_limited.
ErrorInputs ==
    {[status |-> 429, hdr |-> {1}, body |-> {}, reason |-> "Unknown"],
     [status |-> 429, hdr |-> {}, body |-> {}, reason |-> "QuotaExhausted"],
     [status |-> 403, hdr |-> {}, body |-> {}, reason |-> "Unknown"]}

\* The rows of the store the token manager runs against: every second account
\* has a token that enters the refresh window two seconds from the start and
\* no project_id yet; the others have a fresh token and a project_id.
TMTier(i) == <<"FREE", "ULTRA", "PRO", NULL>>[((i - 1) % 4) + 1]
TMRow(i) ==
    [NewRow(AccountOrder[i], AccountOrder[i]) EXCEPT
        !.expiry_timestamp = IF i % 2 = 0 THEN RefreshSkew + 2 ELSE 2 * ExpiresIn,
        !.has_project = (i % 2 = 1),
        !.subscription_tier = TMTier(i)]

\* token_manager.rs lines 217-222
tier_priority(tier) ==
    CASE tier = "ULTRA" -> 0
      [] tier = "PRO" -> 1
      [] tier = "FREE" -> 2
      [] OTHER -> 3

\* token_manager.rs lines 75-92: the ProxyToken of a row
TokenOfRow(r) ==
    [account_id |-> r.id, timestamp |-> r.expiry_timestamp,
     has_project |-> r.has_project, subscription_tier |-> r.subscription_tier]

\* token_manager.rs lines 54-95: the pool load_accounts builds.
LoadedTokens(rows) ==
    LET enabled == {r \in rows : ~r.disabled}
    IN [id \in RowIds(enabled) |-> TokenOfRow(CHOOSE r \in enabled : r.id = id)]

\* The pool in DashMap iteration order.
PoolSeq(toks) ==
    LET idx(i) == AccountOrder[i] IN
    SelectSeq([i \in 1..Len(AccountOrder) |-> idx(i)], LAMBDA a : a \in DOMAIN toks)

\* token_manager.rs lines 208-224: the snapshot, stably sorted by tier.
TierSlice(toks, p) ==
    SelectSeq(PoolSeq(toks), LAMBDA a : tier_priority(toks[a].subscription_tier) = p)

\* Faulty variant of tokens_snapshot: the snapshot is left in pool order.
SnapshotUnsorted(toks) ==
    [i \in 1..Len(PoolSeq(toks)) |-> toks[PoolSeq(toks)[i]]]

tokens_snapshot(toks) ==
    LET ids == TierSlice(toks, 0) \o TierSlice(toks, 1) \o TierSlice(toks, 2)
               \o TierSlice(toks, 3)
    IN [i \in 1..Len(ids) |-> toks[ids[i]]]

SnapIds(snap) == {snap[i].account_id : i \in 1..Len(snap)}
SnapToken(snap, id) == snap[CHOOSE i \in 1..Len(snap) : snap[i].account_id = id]

NoLastUsed == [id |-> NULL, at |-> 0]

\* The get_token call in progress or last finished: its arguments, the locals
\* of the loop (snap, attempt, attempted, and the scheduling clone mode and
\* max_wait), and what it did: the seconds slept, whether it dropped the
\* session's binding, the accounts it refreshed, how the target was picked
\* (via), the account the last iteration selected (target) and the result. n
\* numbers the calls; the run ends with call MaxCalls.
IdleCall ==
    [pc |-> "idle", n |-> 0, group |-> "gemini", force |-> FALSE,
     sid |-> NULL, snap |-> <<>>, attempt |-> 0, attempted |-> {},
     mode |-> "Balance", max_wait |-> 0, slept |-> 0, dropped |-> FALSE,
     result |-> NULL, err |-> "none", min_wait |-> 0, via |-> "none",
     refreshed |-> {}, target |-> NULL]

\* No load_accounts call is between its SELECT and its inserts; n is the count
\* the last call returned. While a call runs, rows are the rows it has still to
\* insert and cleared tells whether it has emptied the pool.
NotLoading == [active |-> FALSE, rows |-> {}, n |-> 0, cleared |-> FALSE]

\* No call has been made on the tracker. n numbers the calls.
NoInfo == [op |-> "none", n |-> 0, account |-> NULL, model |-> NULL,
           input |-> NULL, out |-> {}]

\* No stream is open.
NoStream == [upstream |-> <<>>, pos |-> 0, split |-> FALSE, buffer |-> <<>>, out |-> <<>>,
             failed |-> FALSE, done |-> FALSE]

\* An empty proxy_logs table and no record task.
NoLogs == [rows |-> {}, seq |-> 0, ever |-> {}, tasks |-> <<>>]

\* No account has been returned in the current run of rotating calls.
NoPicks == [id \in TMIds |-> 0]

\* No get_token call has run its selection.
NoSelections == [total |-> 0, tries |-> 0, count |-> NoPicks]

\* No warm_up_all_accounts call has been made.
NoWarmup == [pc |-> "idle", calls |-> 0, retry_count |-> 0, passes |-> 0,
             readings |-> {}, items |-> {}, near |-> FALSE, waited |-> 0,
             result |-> "none"]

\* ProxyServiceManager::new (proxy.rs lines 48-53): no instance, nobody holds
\* the lock, no server task.
ProxyCallers == {"p1", "p2", "p3"}
NoProxy == [instance |-> {}, writer |-> "none", servers |-> 0,
            pc |-> [c \in ProxyCallers |-> "idle"],
            port |-> [c \in ProxyCallers |-> 0],
            res |-> [c \in ProxyCallers |-> "none"],
            seen |-> [c \in ProxyCallers |-> {}],
            calls |-> 0, started |-> 0, stopped |-> 0]

\* TokenManager::new (lines 40-51) over a store of MaxAccounts enabled accounts.
\* now.n counts the clock steps taken so far.
TMInit ==
    /\ accounts = {TMRow(i) : i \in 1..MaxAccounts}
    /\ tokens = <<>>
    /\ current_index = 0
    /\ last_used_account = NoLastUsed
    /\ limits = <<>>
    /\ session_accounts = <<>>
    /\ sticky_config = [mode |-> "Balance", max_wait_seconds |-> DefaultMaxWait]
    /\ now = [t |-> 0, n |-> 0]
    /\ call = IdleCall
    /\ loading = NotLoading
    /\ parked = IdleCall
    /\ picked = NoPicks
    /\ info = NoInfo
    /\ sse = NoStream
    /\ logs = NoLogs
    /\ selected = NoSelections /\ warmup = NoWarmup /\ proxy = NoProxy

\* token_manager.rs line 242: session_accounts.get(sid)
Binding(sessions, sid) == IF sid \in DOMAIN sessions THEN sessions[sid] ELSE NULL

\* Faulty variant of ShouldWait: the bound account is never waited for.
WaitNever(mode, reset_sec, max_wait) == FALSE

\* Faulty variant of ShouldWait: the bound account is waited for whatever the wait.
WaitAlways(mode, reset_sec, max_wait) == TRUE

\* token_manager.rs lines 245-246
ShouldWait(mode, reset_sec, max_wait) ==
    mode = "CacheFirst" /\ reset_sec <= max_wait

\* Faulty variant of round_robin: every scan starts at the head of the snapshot.
round_robin_from_head(snap, start_idx, attempted, lim, t) ==
    LET ok == {i \in 1..Len(snap) :
                  /\ snap[i].account_id \notin attempted
                  /\ ~is_rate_limited(lim, t, snap[i].account_id, NULL)}
    IN IF ok = {} THEN NULL
       ELSE snap[CHOOSE i \in ok : \A o \in ok : i <= o].account_id

\* token_manager.rs lines 288-306 and 311-321: the first candidate from
\* start_idx on that is neither attempted nor rate-limited, NULL if none.
round_robin(snap, start_idx, attempted, lim, t) ==
    LET total == Len(snap)
        cand(off) == snap[((start_idx + off) % total) + 1].account_id
        ok == {off \in 0..(total - 1) :
                  /\ cand(off) \notin attempted
                  /\ ~is_rate_limited(lim, t, cand(off), NULL)}
    IN IF ok = {} THEN NULL
       ELSE cand(CHOOSE off \in ok : \A o \in ok : off <= o)

\* Faulty variant of last_used_reusable: the last-used account is never reused.
last_used_forgotten(lu, snap, attempted, lim, t) == FALSE

\* token_manager.rs lines 276-284: the 60-second reuse of the last-used account.
last_used_reusable(lu, snap, attempted, lim, t) ==
    /\ lu.id # NULL
    /\ as_secs(t - lu.at) < LastUsedWindow
    /\ lu.id \notin attempted
    /\ lu.id \in SnapIds(snap)

\* token_manager.rs lines 236-271 (mode A): the sticky-session step of the first
\* attempt. Yields the target (NULL if none), the seconds slept and the bindings.
StickyStep(c, rotate, sessions, lim, t) ==
    LET applies == ~rotate /\ c.sid # NULL /\ c.mode # "PerformanceFirst"
        bound_id == IF applies THEN Binding(sessions, c.sid) ELSE NULL
        reset_sec == IF bound_id = NULL THEN 0
                     ELSE get_remaining_wait(lim, t, bound_id, NULL)
        found == IF bound_id \in SnapIds(c.snap) THEN bound_id ELSE NULL
        none == [target |-> NULL, via |-> "none", slept |-> 0, dropped |-> FALSE,
                 sessions |-> sessions]
    IN IF bound_id = NULL
       THEN none
       ELSE IF reset_sec > 0
       THEN IF ShouldWait(c.mode, reset_sec, c.max_wait)
            THEN [none EXCEPT !.target = found, !.via = "sticky_wait",
                              !.slept = reset_sec]
            ELSE [none EXCEPT !.dropped = TRUE,
                     !.sessions = [x \in DOMAIN sessions \ {c.sid} |-> sessions[x]]]
       ELSE IF bound_id \notin c.attempted
       THEN [none EXCEPT !.target = found, !.via = "sticky"]
       ELSE none

\* token_manager.rs lines 299-304
BindsSession(c) == c.sid # NULL /\ c.mode # "PerformanceFirst"

\* token_manager.rs lines 273-322 (modes B and C): the selection after the
\* sticky step a, at the time t the step ended. Yields the target with the
\* state it leaves: bindings, last-used, cursor, clock.
RotateStep(c, rotate, a, lu, index, lim, t) ==
    LET base == [target |-> a.target, via |-> a.via, slept |-> a.slept,
                 dropped |-> a.dropped, sessions |-> a.sessions, last_used |-> lu, index |-> index, t |-> t]
        rr == round_robin(c.snap, index % Len(c.snap), c.attempted, lim, t)
    IN IF a.target # NULL
       THEN base
       ELSE IF ~rotate /\ c.group # "image_gen"
       THEN \* mode B
            IF last_used_reusable(lu, c.snap, c.attempted, lim, t)
            THEN [base EXCEPT !.target = lu.id, !.via = "last_used"]
            ELSE IF rr = NULL
            THEN [base EXCEPT !.index = index + 1]
            ELSE [base EXCEPT !.target = rr, !.via = "round_robin",
                     !.index = index + 1,
                     !.last_used = [id |-> rr, at |-> t],
                     !.sessions = IF BindsSession(c)
                                  THEN [x \in DOMAIN a.sessions \cup {c.sid} |->
                                           IF x = c.sid THEN rr ELSE a.sessions[x]]
                                  ELSE a.sessions]
       ELSE \* mode C
            [base EXCEPT !.target = rr, !.index = index + 1,
                         !.via = IF rr = NULL THEN "none" ELSE "rotation"]

\* The sticky step's sleep (line 254) moves the clock.
AfterSleep(t0, a) == t0 + from_secs(a.slept)

\* token_manager.rs lines 232-322: the selection of one loop iteration.
SelectFrom(c, rotate, a, lu, index, lim, t0) ==
    RotateStep(c, rotate, a, lu, index, lim, AfterSleep(t0, a))

Select(c, rotate, sessions, lu, index, lim, t0) ==
    SelectFrom(c, rotate, StickyStep(c, rotate, sessions, lim, t0), lu, index, lim, t0)

\* token_manager.rs lines 327-331: the wait the "all limited" error states.
min_wait(snap, lim, t) ==
    LET waits == UNION {get_reset_seconds(lim, t, snap[i].account_id, NULL) :
                          i \in 1..Len(snap)}
    IN IF waits = {} THEN 60 ELSE CHOOSE w \in waits : \A v \in waits : w <= v

\* token_manager.rs line 341
needs_refresh(now_s, timestamp) == now_s >= timestamp - RefreshSkew

RefreshOutcomes == {"ok", "error", "invalid_grant"}

\* token_manager.rs lines 406-438: disable_account's UPDATE of the row.
DisableRow(rows, id) ==
    {IF r.id = id THEN [r EXCEPT !.disabled = TRUE] ELSE r : r \in rows}

\* save_refreshed_token and save_project_id (lines 353-355, 383): the row takes
\* the new expiry when the token was refreshed and keeps a resolved project.
SaveRow(rows, id, refreshed, ts, resolved) ==
    {IF r.id = id
     THEN [r EXCEPT !.expiry_timestamp = IF refreshed THEN ts ELSE @,
                    !.has_project = @ \/ resolved]
     ELSE r : r \in rows}

\* The call ends: the locals are dropped and the result recorded.
Finished(c, result, err, n) ==
    [c EXCEPT !.pc = "done", !.snap = <<>>, !.group = "gemini", !.attempt = 0,
              !.attempted = {},
              !.result = result, !.err = err, !.min_wait = n]

\* A variant that does not remember the failed target.
ContinueForgetting(c, target) ==
    IF c.attempt + 1 >= Len(c.snap)
    THEN [c EXCEPT !.pc = "done", !.snap = <<>>, !.group = "gemini", !.attempt = 0,
                   !.attempted = {}, !.result = NULL, !.err = "failed", !.min_wait = 0]
    ELSE [c EXCEPT !.attempt = @ + 1, !.pc = "retry"]

\* The iteration failed on its target (`continue`, lines 367-369 and 387-389):
\* the next iteration, or the error after the loop (line 402).
Continue(c, target) ==
    LET c1 == [c EXCEPT !.attempted = @ \cup {target}, !.attempt = @ + 1]
    IN IF c1.attempt >= Len(c.snap)
       THEN Finished(c1, NULL, "failed", 0)
       ELSE [c1 EXCEPT !.pc = "retry"]

\* token_manager.rs lines 324-400: what one iteration does with its
\* selection sel: the error when there is no target, the refresh, the project.
Resolve(c, sel) ==
    LET c1 == [c EXCEPT !.slept = @ + sel.slept, !.via = sel.via,
                        !.dropped = @ \/ sel.dropped, !.target = sel.target]
        now_s == as_secs(sel.t)
    IN /\ session_accounts' = sel.sessions
       /\ last_used_account' = sel.last_used
       /\ current_index' = sel.index
       /\ sel.slept > 0 => now.n < MaxTicks
       /\ now' = [t |-> sel.t, n |-> IF sel.slept > 0 THEN now.n + 1 ELSE now.n]
       /\ UNCHANGED <<limits, sticky_config>>
       /\ IF sel.target = NULL
          THEN /\ call' = Finished(c1, NULL, "all_limited", min_wait(c.snap, limits, sel.t))
               /\ UNCHANGED <<tokens, accounts>>
          ELSE LET tok == SnapToken(c.snap, sel.target)
                   refresh == needs_refresh(now_s, tok.timestamp)
                   c2 == IF refresh THEN [c1 EXCEPT !.refreshed = @ \cup {sel.target}]
                         ELSE c1
               IN \E ro \in (IF refresh THEN RefreshOutcomes ELSE {"ok"}),
                     po \in (IF tok.has_project THEN {TRUE} ELSE BOOLEAN) :
                    IF refresh /\ ro = "invalid_grant"
                    THEN \* disable_account, lines 406-438
                         /\ accounts' = DisableRow(accounts, sel.target)
                         /\ tokens' = [x \in DOMAIN tokens \ {sel.target} |-> tokens[x]]
                         /\ call' = Continue(c2, sel.target)
                    ELSE IF refresh /\ ro = "error"
                    THEN /\ UNCHANGED <<tokens, accounts>>
                         /\ call' = Continue(c2, sel.target)
                    ELSE LET ts == IF refresh THEN now_s + ExpiresIn ELSE tok.timestamp
                             resolved == tok.has_project \/ po
                         IN /\ tokens' =
                                 IF sel.target \in DOMAIN tokens
                                 THEN [tokens EXCEPT ![sel.target] =
                                          [@ EXCEPT !.timestamp = IF refresh THEN ts ELSE @,
                                                    !.has_project = @ \/ resolved]]
                                 ELSE tokens
                            /\ accounts' = SaveRow(accounts, sel.target, refresh, ts,
                                                    resolved)
                            /\ call' = IF resolved
                                       THEN Finished(c2, sel.target, "none", 0)
                                       ELSE Continue(c2, sel.target)

\* One iteration of get_token's loop (lines 232-400) for the call c.
Iteration(c) ==
    Resolve(c, Select(c, c.force \/ c.attempt > 0, session_accounts,
                      last_used_account, current_index, limits, now.t))

\* get_token (lines 202-403): the snapshot and the first iteration.
GetTokenCall(max_calls) ==
    /\ call.pc # "retry"
    /\ call.n < max_calls
    /\ \E group \in QuotaGroups, force \in BOOLEAN, sid \in Sessions \cup {NULL} :
        LET snap == tokens_snapshot(tokens)
            c == [IdleCall EXCEPT !.n = call.n + 1, !.group = group,
                     !.force = force, !.sid = sid, !.snap = snap,
                     !.mode = sticky_config.mode,
                     !.max_wait = sticky_config.max_wait_seconds]
        IN IF Len(snap) = 0
           THEN /\ call' = Finished(c, NULL, "empty", 0)
                /\ UNCHANGED <<accounts, tokens, current_index, last_used_account,
                               limits, session_accounts, sticky_config, now>>
           ELSE Iteration(c)

GetToken == GetTokenCall(MaxCalls)

\* A later iteration of the same call.
GetTokenRetry ==
    /\ call.pc = "retry"
    /\ Iteration(call)

\* load_accounts (lines 54-95)
LoadAccounts ==
    /\ call.pc # "retry"
    /\ call.n < MaxCalls
    /\ tokens' = LoadedTokens(accounts)
    /\ current_index' = 0
    /\ last_used_account' = NoLastUsed
    /\ UNCHANGED <<accounts, limits, session_accounts, sticky_config, now, call>>

\* mark_rate_limited (lines 477-486), called by the dispatch layer with the
\* account get_token gave it and the upstream's error.
MarkRateLimited ==
    /\ call.pc = "done"
    /\ call.n < MaxCalls
    /\ call.result # NULL
    /\ \E e \in ErrorInputs :
        limits' = parse_from_error(limits, now.t, call.result, e.status, e.hdr,
                                   e.body, e.reason, NULL)
    /\ UNCHANGED <<accounts, tokens, current_index, last_used_account,
                   session_accounts, sticky_config, now, call>>

\* update_sticky_config (lines 496-498), called when the proxy is configured,
\* before it takes requests.
UpdateStickyConfig ==
    /\ call.pc = "idle"
    /\ \E m \in Modes, w \in MaxWaitChoices :
        sticky_config' = [mode |-> m, max_wait_seconds |-> w]
    /\ UNCHANGED <<accounts, tokens, current_index, last_used_account, limits,
                   session_accounts, now, call>>

\* Time passes between calls.
Tick ==
    /\ call.pc # "retry"
    /\ call.n < MaxCalls
    /\ now.n < MaxTicks
    /\ \E d \in TickChoices : now' = [t |-> now.t + d, n |-> now.n + 1]
    /\ UNCHANGED <<accounts, tokens, current_index, last_used_account, limits,
                   session_accounts, sticky_config, call>>

\* load_accounts, lines 54-65: the SELECT of the rows that are not disabled.
LoadSelect ==
    /\ ~loading.active
    /\ loading' = [loading EXCEPT !.active = TRUE,
                                  !.rows = {r \in accounts : ~r.disabled}]
    /\ UNCHANGED <<accounts, tmVars>>

\* load_accounts, lines 67-94: the pool is cleared and rebuilt from the rows
\* the SELECT returned.
LoadStore ==
    /\ loading.active
    /\ tokens' = LoadedTokens(loading.rows)
    /\ current_index' = 0
    /\ last_used_account' = NoLastUsed
    /\ loading' = [NotLoading EXCEPT !.n = Cardinality(loading.rows)]
    /\ UNCHANGED <<accounts, limits, session_accounts, sticky_config, now, call>>

\* load_accounts running beside get_token calls (the reload endpoint,
\* api/proxy.rs line 57, beside the request handlers).
TMLoadNext ==
    \/ LoadSelect /\ UNCHANGED <<acctOp, acctCalls, schedVars, dispVars, parked, picked, info,
                       sse, logs, selected, warmup, proxy>>
    \/ LoadStore /\ UNCHANGED <<acctOp, acctCalls, schedVars, dispVars, parked, picked, info,
                       sse, logs, selected, warmup, proxy>>
    \/ GetToken /\ UNCHANGED <<acctOp, acctCalls, schedVars, dispVars, auxVars>>
    \/ GetTokenRetry /\ UNCHANGED <<acctOp, acctCalls, schedVars, dispVars, auxVars>>
    \/ Tick /\ UNCHANGED <<acctOp, acctCalls, schedVars, dispVars, auxVars>>

\* load_accounts, lines 67-72, as other threads see it: the pool is emptied and
\* the cursor and the last-used account are reset, before any row is inserted.
LoadClear ==
    /\ loading.active
    /\ ~loading.cleared
    /\ tokens' = <<>>
    /\ current_index' = 0
    /\ last_used_account' = NoLastUsed
    /\ loading' = IF loading.rows = {} THEN NotLoading
                  ELSE [loading EXCEPT !.cleared = TRUE]
    /\ UNCHANGED <<accounts, limits, session_accounts, sticky_config, now, call>>

\* load_accounts, lines 74-94: one turn of the insert loop; the call returns
\* the count after the last row.
LoadInsert ==
    /\ loading.active
    /\ loading.cleared
    /\ \E r \in loading.rows :
          /\ tokens' = [id \in DOMAIN tokens \cup {r.id} |->
                           IF id = r.id THEN TokenOfRow(r) ELSE tokens[id]]
          /\ loading' = IF loading.rows = {r}
                        THEN [NotLoading EXCEPT !.n = Cardinality(DOMAIN tokens \cup {r.id})]
                        ELSE [loading EXCEPT !.rows = @ \ {r}]
    /\ UNCHANGED <<accounts, current_index, last_used_account, limits, session_accounts,
                   sticky_config, now, call>>

\* load_accounts running on one thread of the runtime while get_token calls
\* run on another.
TMReloadNext ==
    \/ LoadSelect /\ UNCHANGED <<acctOp, acctCalls, schedVars, dispVars, parked, picked, info,
                       sse, logs, selected, warmup, proxy>>
    \/ LoadClear /\ UNCHANGED <<acctOp, acctCalls, schedVars, dispVars, parked, picked, info,
                       sse, logs, selected, warmup, proxy>>
    \/ LoadInsert /\ UNCHANGED <<acctOp, acctCalls, schedVars, dispVars, parked, picked, info,
                       sse, logs, selected, warmup, proxy>>
    \/ GetToken /\ UNCHANGED <<acctOp, acctCalls, schedVars, dispVars, auxVars>>
    \/ GetTokenRetry /\ UNCHANGED <<acctOp, acctCalls, schedVars, dispVars, auxVars>>

\* Two get_token calls in flight on the runtime: the running call stops at an
\* await of its loop and other calls run until it resumes. One call is
\* stopped at a time; the calls of the run are numbered across both.
Yield ==
    /\ \/ call.pc = "retry" /\ parked.pc = "idle"
       \/ parked.pc = "retry" /\ call.pc # "retry"
    /\ call' = [parked EXCEPT !.n = Max2(call.n, parked.n)]
    /\ parked' = call
    /\ UNCHANGED <<accounts, tokens, current_index, last_used_account, limits,
                   session_accounts, sticky_config, now, loading, selected, warmup, proxy>>

\* get_token calls overlapping each other.
TMOverlapNext ==
    \/ GetToken /\ UNCHANGED <<acctOp, acctCalls, schedVars, dispVars, auxVars>>
    \/ GetTokenRetry /\ UNCHANGED <<acctOp, acctCalls, schedVars, dispVars, auxVars>>
    \/ LoadAccounts /\ UNCHANGED <<acctOp, acctCalls, schedVars, dispVars, auxVars>>
    \/ Yield /\ UNCHANGED <<acctOp, acctCalls, schedVars, dispVars, picked, info,
                       sse, logs, selected, warmup, proxy>>

TMNext ==
    \/ GetToken /\ UNCHANGED <<acctOp, acctCalls, schedVars, dispVars, auxVars>>
    \/ GetTokenRetry /\ UNCHANGED <<acctOp, acctCalls, schedVars, dispVars, auxVars>>
    \/ LoadAccounts /\ UNCHANGED <<acctOp, acctCalls, schedVars, dispVars, auxVars>>
    \/ MarkRateLimited /\ UNCHANGED <<acctOp, acctCalls, schedVars, dispVars, auxVars>>
    \/ UpdateStickyConfig /\ UNCHANGED <<acctOp, acctCalls, schedVars, dispVars, auxVars>>
    \/ Tick /\ UNCHANGED <<acctOp, acctCalls, schedVars, dispVars, auxVars>>

\* A burst of get_token calls running side by side: a call takes its snapshot
\* (lines 208-213) and then waits for the last-used lock of line 275 while
\* the other call runs; the selection under the lock and what follows it are
\* one iteration. The calls are numbered in the order they enter.
MaxBurst == 4

EnterGetToken ==
    /\ call.pc \notin {"lock", "retry"}
    /\ Max2(call.n, parked.n) < MaxBurst
    /\ \E group \in QuotaGroups, force \in BOOLEAN, sid \in Sessions \cup {NULL} :
        LET snap == tokens_snapshot(tokens)
            c == [IdleCall EXCEPT !.n = Max2(call.n, parked.n) + 1, !.group = group,
                     !.force = force, !.sid = sid, !.snap = snap,
                     !.mode = sticky_config.mode,
                     !.max_wait = sticky_config.max_wait_seconds]
        IN call' = IF Len(snap) = 0 THEN Finished(c, NULL, "empty", 0)
                   ELSE [c EXCEPT !.pc = "lock"]
    /\ UNCHANGED <<accounts, tokens, current_index, last_used_account, limits,
                   session_accounts, sticky_config, now>>

\* The call takes the lock and runs its first iteration.
TakeLastUsedLock ==
    /\ call.pc = "lock"
    /\ Iteration(call)

\* The runtime switches to the other call of the burst.
SwitchCall ==
    /\ call.pc = "lock" \/ parked.pc = "lock"
    /\ call' = parked
    /\ parked' = call
    /\ UNCHANGED <<accounts, tokens, current_index, last_used_account, limits,
                   session_accounts, sticky_config, now, loading, selected, warmup, proxy>>

\* The accounts returned so far to the calls of the burst that pass neither
\* force_rotate nor a session id and ask for a group other than image_gen.
BurstTally(pk, before, after) ==
    IF /\ ~before.force /\ before.sid = NULL /\ before.group # "image_gen"
       /\ after.pc = "done" /\ after.result # NULL
    THEN [pk EXCEPT ![after.result] = @ + 1]
    ELSE pk

BurstNext ==
    \/ EnterGetToken /\ UNCHANGED <<acctOp, acctCalls, schedVars, dispVars, auxVars>>
    \/ /\ TakeLastUsedLock
       /\ picked' = BurstTally(picked, call, call')
       /\ UNCHANGED <<acctOp, acctCalls, schedVars, dispVars, loading, parked, info,
                      sse, logs, selected, warmup, proxy>>
    \/ SwitchCall /\ UNCHANGED <<acctOp, acctCalls, schedVars, dispVars, picked, info,
                                 sse, logs>>
    \/ /\ LoadAccounts
       /\ call.pc # "lock" /\ parked.pc # "lock"
       /\ picked' = NoPicks
       /\ UNCHANGED <<acctOp, acctCalls, schedVars, dispVars, loading, parked, info,
                      sse, logs, selected, warmup, proxy>>
    \/ Tick /\ UNCHANGED <<acctOp, acctCalls, schedVars, dispVars, auxVars>>

(***************************************************************************)
(* Calls on the rate-limit tracker                                         *)
(***************************************************************************)
MaxRecords == 2
MaxWaits == 2

\* The account ids and models the tracker is called with.
RLAccounts == {"a1", "a2"}
RLModels == {"m1", "m2"}
ModelChoices == RLModels \cup {NULL}
Statuses == {429, 503, 403}
\* Half a second, which as_secs drops, and the 2-second minimum lockout.
WaitChoices == {1, from_secs(2)}
\* Lockouts handed to set_lockout_until, from now: none left, and 3 seconds.
LockoutChoices == {0, from_secs(3)}

EmptyBody == Body(FALSE, {}, {}, <<>>, NULL, {})
Seconds(n) == Duration({}, {}, {n}, FALSE, {})

\* The headers and bodies of a run of several calls.
FewHeaders == {SecondsHeader(1)}
FewBodies == {EmptyBody}
FewStatuses == {429, 401, 403, 404}

\* The headers and bodies of a single call: every source present or absent.
Headers == {NoHeader, TextHeader, SecondsHeader(0), SecondsHeader(1), SecondsHeader(30)}
Delays == {{}, {Seconds(0)}, {Seconds(1)}, {Seconds(42)},
           {Duration({}, {}, {}, FALSE, {500})}, {Duration({2}, {1}, {1}, FALSE, {})},
           {Duration({}, {}, {1}, TRUE, {})}}
RetryAfters == {{}, {0}, {7}}
Texts == {<<>>, [p \in {1, 2} |-> IF p = 1 THEN 150 ELSE 30], [p \in {4} |-> 99],
          [p \in {5} |-> 1]}
Reasons == {<<NULL, {}>>, <<NULL, {"quota"}>>, <<NULL, {"quota", "model_capacity"}>>,
            <<NULL, {"rate limit"}>>, <<"QUOTA_EXHAUSTED", {}>>,
            <<"RATE_LIMIT_EXCEEDED", {"quota"}>>, <<"MODEL_CAPACITY_EXHAUSTED", {"quota"}>>}
Bodies ==
    {Body(j, d, ra, tx, r[1], r[2]) :
        j \in BOOLEAN, d \in Delays, ra \in RetryAfters, tx \in Texts, r \in Reasons}

\* parse_from_error (lines 159-274) on an upstream error, as mark_rate_limited
\* makes it.
ParseFromError(max_records, models, statuses, headers, bodies) ==
    /\ info.n < max_records
    /\ \E a \in RLAccounts, m \in models, status \in statuses,
          h \in headers, b \in bodies :
        LET hdr == header_seconds(h)
            body == parse_retry_time_from_body(b)
            reason == parse_rate_limit_reason(b)
        IN /\ limits' = parse_from_error(limits, now.t, a, status, hdr, body, reason, m)
           /\ info' = [op |-> "parse_from_error", n |-> info.n + 1, account |-> a,
                       model |-> m,
                       input |-> [status |-> status, header |-> h, body |-> b],
                       out |-> parse_from_error_info(now.t, status, hdr, body, reason, m)]
    /\ UNCHANGED <<accounts, tokens, current_index, last_used_account,
                   session_accounts, sticky_config, now, call>>

\* set_lockout_until (lines 88-112)
SetLockoutUntil ==
    /\ info.n < MaxRecords
    /\ \E a \in RLAccounts, m \in ModelChoices, d \in LockoutChoices :
        /\ limits' = set_lockout_until(limits, a, now.t + d, m)
        /\ info' = [NoInfo EXCEPT !.op = "set_lockout_until", !.n = info.n + 1,
                                  !.account = a, !.model = m]
    /\ UNCHANGED <<accounts, tokens, current_index, last_used_account,
                   session_accounts, sticky_config, now, call>>

\* cleanup_expired (lines 502-520)
CleanupExpired ==
    /\ info.n < MaxRecords
    /\ limits' = cleanup_expired(limits, now.t)
    /\ info' = [NoInfo EXCEPT !.op = "cleanup_expired", !.n = info.n + 1]
    /\ UNCHANGED <<accounts, tokens, current_index, last_used_account,
                   session_accounts, sticky_config, now, call>>

\* Time passes between the calls on the tracker.
Wait ==
    /\ now.n < MaxWaits
    /\ \E d \in WaitChoices : now' = [t |-> now.t + d, n |-> now.n + 1]
    /\ UNCHANGED <<accounts, tokens, current_index, last_used_account, limits,
                   session_accounts, sticky_config, call, info, selected, warmup, proxy>>

RateLimitNext ==
    \/ ParseFromError(MaxRecords, ModelChoices, FewStatuses, FewHeaders, FewBodies)
          /\ UNCHANGED <<acctOp, acctCalls, schedVars, dispVars, loading, parked, picked,
                       sse, logs, selected, warmup, proxy>>
    \/ SetLockoutUntil
          /\ UNCHANGED <<acctOp, acctCalls, schedVars, dispVars, loading, parked, picked,
                       sse, logs, selected, warmup, proxy>>
    \/ CleanupExpired
          /\ UNCHANGED <<acctOp, acctCalls, schedVars, dispVars, loading, parked, picked,
                       sse, logs, selected, warmup, proxy>>
    \/ Wait /\ UNCHANGED <<acctOp, acctCalls, schedVars, dispVars, loading, parked, picked,
                       sse, logs, selected, warmup, proxy>>

\* One call of parse_from_error, at any of the moments the waits lead to.
ParseNext ==
    \/ ParseFromError(1, {NULL, "m1"}, Statuses, Headers, Bodies)
          /\ UNCHANGED <<acctOp, acctCalls, schedVars, dispVars, loading, parked, picked,
                       sse, logs, selected, warmup, proxy>>
    \/ Wait /\ UNCHANGED <<acctOp, acctCalls, schedVars, dispVars, loading, parked, picked,
                       sse, logs, selected, warmup, proxy>>

\* Records that follow one another under the same key: a 429 whose body names
\* QUOTA_EXHAUSTED and a 503, neither with a retry time.
QuotaExhaustedBody == Body(TRUE, {}, {}, <<>>, "QUOTA_EXHAUSTED", {})
OverwriteNext ==
    \/ ParseFromError(MaxRecords, {NULL, "m1"}, {429, 503}, {NoHeader},
                      {EmptyBody, QuotaExhaustedBody})
          /\ UNCHANGED <<acctOp, acctCalls, schedVars, dispVars, loading, parked, picked,
                       sse, logs, selected, warmup, proxy>>
    \/ Wait /\ UNCHANGED <<acctOp, acctCalls, schedVars, dispVars, loading, parked, picked,
                       sse, logs, selected, warmup, proxy>>

\* The calls of a run of rotation.
MaxRotations == 6

\* The tally of the run of get_token(force_rotate = true) calls after the call
\* c: a returned account is counted, and any other call ends the run.
Counted(pk, c) ==
    IF ~c.force THEN NoPicks
    ELSE IF c.pc = "done" /\ c.result # NULL THEN [pk EXCEPT ![c.result] = @ + 1]
    ELSE pk

RotationNext ==
    \/ GetTokenCall(MaxRotations) /\ picked' = Counted(picked, call')
          /\ UNCHANGED <<acctOp, acctCalls, schedVars, dispVars, loading, parked, info,
                       sse, logs, selected, warmup, proxy>>
    \/ LoadAccounts /\ picked' = NoPicks
          /\ UNCHANGED <<acctOp, acctCalls, schedVars, dispVars, loading, parked, info,
                       sse, logs, selected, warmup, proxy>>
    \/ Tick /\ UNCHANGED <<acctOp, acctCalls, schedVars, dispVars, auxVars>>

(***************************************************************************)
(* Specifications                                                          *)
(***************************************************************************)
AcctIdle == accounts = {} /\ acctOp = NoOp /\ acctCalls = NoCalls
AcctOpIdle == acctOp = NoOp /\ acctCalls = NoCalls
SchedIdle ==
    /\ WARM_HISTORY = <<>>
    /\ schedNow = 0
    /\ schedPass = [models |-> {}, limit |-> 0, n |-> 0, prev |-> <<>>, obs |-> <<>>,
                    enq |-> {}, since |-> <<>>, steady |-> <<>>]
TMQuiet ==
    /\ tokens = <<>>
    /\ current_index = 0
    /\ last_used_account = NoLastUsed
    /\ limits = <<>>
    /\ session_accounts = <<>>
    /\ sticky_config = [mode |-> "Balance", max_wait_seconds |-> DefaultMaxWait]
    /\ now = [t |-> 0, n |-> 0]
    /\ call = IdleCall
    /\ loading = NotLoading
    /\ parked = IdleCall
    /\ picked = NoPicks
    /\ info = NoInfo
TMIdle == TMQuiet /\ sse = NoStream /\ logs = NoLogs /\ selected = NoSelections /\ warmup = NoWarmup /\ proxy = NoProxy

\* The account store under sequential AccountService calls.
InitAccounts == AcctInit /\ SchedIdle /\ DispInit /\ TMIdle
SpecAccounts == InitAccounts /\ [][AcctNext]_vars

\* The account store under concurrent AccountService calls.
InitAccountsConc == AcctInit /\ SchedIdle /\ DispInit /\ TMIdle
SpecAccountsConc == InitAccountsConc /\ [][ConcNext]_vars

\* The warm-up scheduler over a few passes, all models of the quota API.
InitScheduler == SchedInit(QuotaModels, MaxPasses) /\ AcctOpIdle /\ DispInit /\ TMIdle
SpecScheduler == InitScheduler /\ [][SchedNext]_vars

\* The warm-up scheduler over more than a day of passes, one model.
InitSchedulerDay ==
    SchedInit({"gemini-3-flash"}, MaxPassesDay) /\ AcctOpIdle /\ DispInit /\ TMIdle
SpecSchedulerDay == InitSchedulerDay /\ [][SchedNext]_vars

\* The warm-up scheduler over a store with an enabled and a disabled account,
\* one model.
InitSchedulerDisabled ==
    /\ SchedInitOver({NewRow(1, "e1"), [NewRow(2, "e2") EXCEPT !.disabled = TRUE]},
                     {"gemini-3-flash"}, MaxPasses)
    /\ AcctOpIdle /\ DispInit /\ TMIdle
SpecSchedulerDisabled == InitSchedulerDisabled /\ [][SchedNext]_vars

\* The desktop dispatch handler under concurrent requests.
InitDispatch == DispInit /\ AcctIdle /\ SchedIdle /\ TMIdle
SpecDispatch == InitDispatch /\ [][DispNext]_vars

\* The server token manager under sequential calls.
InitTokenManager == TMInit /\ AcctOpIdle /\ SchedIdle /\ DispInit
SpecTokenManager == InitTokenManager /\ [][TMNext]_vars

\* The server token manager with load_accounts running beside get_token.
SpecTokenManagerLoad == InitTokenManager /\ [][TMLoadNext]_vars

\* The server token manager with the steps of load_accounts interleaved with
\* get_token calls.
SpecTokenManagerReload == InitTokenManager /\ [][TMReloadNext]_vars

\* The server token manager with two get_token calls overlapping, over a store
\* whose access tokens are all due for refresh.
DueRow(i) == [TMRow(i) EXCEPT !.expiry_timestamp = RefreshSkew, !.has_project = TRUE]
InitTokenManagerOverlap ==
    /\ accounts = {DueRow(i) : i \in 1..MaxAccounts}
    /\ AcctOpIdle /\ SchedIdle /\ DispInit /\ TMIdle
SpecTokenManagerOverlap == InitTokenManagerOverlap /\ [][TMOverlapNext]_vars

\* A pool of healthy accounts of one tier: fresh tokens, projects resolved.
EvenRow(i) ==
    [TMRow(i) EXCEPT !.expiry_timestamp = 2 * ExpiresIn, !.has_project = TRUE,
                     !.subscription_tier = NULL]
InitRotation ==
    /\ accounts = {EvenRow(i) : i \in 1..MaxAccounts}
    /\ AcctOpIdle /\ SchedIdle /\ DispInit /\ TMIdle
SpecRotation == InitRotation /\ [][RotationNext]_vars

\* The server token manager under a burst of overlapping get_token calls on a
\* pool of healthy accounts.
SpecBurst == InitRotation /\ [][BurstNext]_vars

\* RateLimitTracker::new (lines 43-47): an empty map.
InitRateLimit ==
    /\ accounts = {TMRow(i) : i \in 1..MaxAccounts}
    /\ AcctOpIdle /\ SchedIdle /\ DispInit /\ TMIdle
SpecRateLimit == InitRateLimit /\ [][RateLimitNext]_vars

SpecParse == InitRateLimit /\ [][ParseNext]_vars

\* The tracker under records that follow one another under the same key.
SpecOverwrite == InitRateLimit /\ [][OverwriteNext]_vars

(***************************************************************************)
(* OpenAI streaming: create_openai_sse_stream                              *)
(* (src-tauri/src/proxy/mappers/openai/streaming.rs)                       *)
(***************************************************************************)
MaxUpstream == 6

\* The upstream byte stream, cut into pieces a chunk boundary can fall between:
\* NL is the byte "\n", "D" the prefix `data: `, "$" the text `[DONE]`, "t" a
\* JSON object whose first candidate has one text part, "f" a JSON object whose
\* first candidate has finishReason MAX_TOKENS and no part.
NL == "\n"
Pieces == {NL, "D", "$", "t", "f"}
Upstreams == UNION {[1..n -> Pieces] : n \in 0..MaxUpstream}

\* serde_json::from_str of one piece (line 37), as the fields lines 46-84 read.
JsonOf(piece) ==
    IF piece = "t" THEN {[text |-> {"t"}, finishReason |-> {}]}
    ELSE IF piece = "f" THEN {[text |-> {}, finishReason |-> {"MAX_TOKENS"}]}
    ELSE {}

\* lines 77-84
finish_reason(f) ==
    IF f = "STOP" THEN "stop"
    ELSE IF f = "MAX_TOKENS" THEN "length"
    ELSE IF f = "SAFETY" THEN "content_filter"
    ELSE f

\* lines 87-104: the chunk without its generated id and its timestamp.
openai_chunk(json) ==
    [kind |-> "chunk",
     content |-> IF json.text = {} THEN "" ELSE CHOOSE t \in json.text : TRUE,
     finish_reason |-> IF json.finishReason = {} THEN NULL
                       ELSE finish_reason(CHOOSE f \in json.finishReason : TRUE)]

\* line 111
ErrorEvent == [kind |-> "error", content |-> "Upstream error", finish_reason |-> NULL]
\* line 116
DoneEvent == [kind |-> "done", content |-> "[DONE]", finish_reason |-> NULL]

\* line 32: trim_start_matches("data: ") strips every leading repetition.
RECURSIVE trim_start_matches(_)
trim_start_matches(line) ==
    IF line # <<>> /\ Head(line) = "D" THEN trim_start_matches(Tail(line)) ELSE line

\* lines 37-105 on the text after the prefix.
json_events(json_part) ==
    IF Len(json_part) # 1 THEN <<>>
    ELSE IF JsonOf(json_part[1]) = {} THEN <<>>
    ELSE <<openai_chunk(CHOOSE j \in JsonOf(json_part[1]) : TRUE)>>

\* A variant that passes the upstream's [DONE] frames on.
line_events_done_passed(line) ==
    IF line = <<>> THEN <<>>
    ELSE IF Head(line) # "D" THEN <<>>
    ELSE IF trim_start_matches(line) = <<"$">> THEN <<DoneEvent>>
    ELSE json_events(trim_start_matches(line))

\* lines 27-106: the events one complete line gives.
line_events(line) ==
    IF line = <<>> THEN <<>>
    ELSE IF Head(line) # "D" THEN <<>>
    ELSE IF trim_start_matches(line) = <<"$">> THEN <<>>
    ELSE json_events(trim_start_matches(line))

\* line 25: buffer.iter().position(|&b| b == b'\n')
position(buffer) ==
    IF \E i \in 1..Len(buffer) : buffer[i] = NL
    THEN {CHOOSE i \in 1..Len(buffer) :
             buffer[i] = NL /\ \A j \in 1..(i - 1) : buffer[j] # NL}
    ELSE {}

\* lines 25-108: split_to(pos + 1) for as long as the buffer holds a newline.
RECURSIVE take_lines(_, _)
take_lines(buffer, events) ==
    IF position(buffer) = {} THEN [buffer |-> buffer, events |-> events]
    ELSE take_lines(
            SubSeq(buffer, (CHOOSE i \in position(buffer) : TRUE) + 1, Len(buffer)),
            events \o line_events(
               SubSeq(buffer, 1, (CHOOSE i \in position(buffer) : TRUE) - 1)))

\* A variant that keeps no partial line from one chunk to the next.
on_chunk_unbuffered(buffer, bytes) ==
    [buffer |-> <<>>, events |-> take_lines(bytes, <<>>).events]

\* lines 19-109: one Ok(bytes) item of the upstream.
on_chunk(buffer, bytes) == take_lines(buffer \o bytes, <<>>)

\* split: some chunk has ended inside a line.
Received(s, k, r) ==
    [s EXCEPT !.pos = @ + k, !.split = @ \/ r.buffer # <<>>, !.buffer = r.buffer,
              !.out = @ \o r.events]

\* The upstream yields the next k pieces as one chunk.
Chunk(k) ==
    /\ ~sse.done
    /\ sse.pos + k <= Len(sse.upstream)
    /\ sse' = Received(sse, k,
                on_chunk(sse.buffer, SubSeq(sse.upstream, sse.pos + 1, sse.pos + k)))

\* lines 110-112: the upstream yields a transport error (one per stream here).
UpstreamError ==
    /\ ~sse.done
    /\ ~sse.failed
    /\ sse' = [sse EXCEPT !.failed = TRUE, !.out = Append(@, ErrorEvent)]

\* lines 114-116: the upstream ends.
Eof ==
    /\ ~sse.done
    /\ sse.pos = Len(sse.upstream)
    /\ sse' = [sse EXCEPT !.done = TRUE, !.out = Append(@, DoneEvent)]

StreamNext ==
    \/ \E k \in 1..MaxUpstream :
          /\ Chunk(k)
          /\ UNCHANGED <<acctVars, schedVars, dispVars, tmVars, loading, parked, picked,
                         info, logs, selected, warmup, proxy>>
    \/ UpstreamError /\ UNCHANGED <<acctVars, schedVars, dispVars, tmVars, loading, parked,
                                    picked, info, logs, selected, warmup, proxy>>
    \/ Eof /\ UNCHANGED <<acctVars, schedVars, dispVars, tmVars, loading, parked, picked,
                          info, logs, selected, warmup, proxy>>

\* create_openai_sse_stream over every upstream of at most MaxUpstream pieces.
InitStream ==
    /\ sse \in {[NoStream EXCEPT !.upstream = u] : u \in Upstreams}
    /\ AcctIdle /\ SchedIdle /\ DispInit /\ TMQuiet
    /\ loading = NotLoading /\ parked = IdleCall /\ picked = NoPicks /\ info = NoInfo
    /\ selected = NoSelections /\ warmup = NoWarmup /\ proxy = NoProxy
    /\ logs = NoLogs
SpecStream == InitStream /\ [][StreamNext]_vars

(***************************************************************************)
(* Proxy log store: LogStore::record (server/src/proxy/log_store.rs)       *)
(***************************************************************************)
\* The number of rows the DELETE of lines 83-89 keeps: 5000 in the code, a few
\* here.
LogLimit == 3
MaxLogTasks == 3

LogTasks == 1..MaxLogTasks

\* lines 84-86: DELETE ... WHERE id IN (SELECT id ... ORDER BY id DESC LIMIT -1
\* OFFSET LogLimit): the rows that have fewer than LogLimit rows above them stay.
keep_all(rows) == rows
keep_latest(rows) == {i \in rows : Cardinality({j \in rows : j > i}) < LogLimit}

\* lines 51-55: record reads the clock and spawns the task.
LogRecord(p) ==
    /\ logs.tasks[p] = "idle"
    /\ logs' = [logs EXCEPT !.tasks[p] = "insert"]

LogInserted(l, p) ==
    [l EXCEPT !.rows = @ \cup {l.seq + 1}, !.ever = @ \cup {l.seq + 1}, !.seq = @ + 1,
              !.tasks[p] = "trim"]

\* lines 56-80: the INSERT; id is AUTOINCREMENT (db.rs line 22). A failed INSERT
\* is logged and the task goes on.
LogInsert(p) ==
    /\ logs.tasks[p] = "insert"
    /\ \E ok \in BOOLEAN :
          logs' = IF ok THEN LogInserted(logs, p) ELSE [logs EXCEPT !.tasks[p] = "trim"]

\* lines 82-89: the DELETE that keeps the newest rows.
LogTrim(p) ==
    /\ logs.tasks[p] = "trim"
    /\ logs' = [logs EXCEPT !.rows = keep_latest(@), !.tasks[p] = "done"]

LogNext ==
    \/ \E p \in LogTasks :
          /\ LogRecord(p)
          /\ UNCHANGED <<acctVars, schedVars, dispVars, tmVars, loading, parked, picked,
                         info, sse, selected, warmup, proxy>>
    \/ \E p \in LogTasks :
          /\ LogInsert(p)
          /\ UNCHANGED <<acctVars, schedVars, dispVars, tmVars, loading, parked, picked,
                         info, sse, selected, warmup, proxy>>
    \/ \E p \in LogTasks :
          /\ LogTrim(p)
          /\ UNCHANGED <<acctVars, schedVars, dispVars, tmVars, loading, parked, picked,
                         info, sse, selected, warmup, proxy>>

\* A table left by an earlier run, of at most LogLimit + 1 rows (a run can end
\* between an INSERT and its DELETE), and no task.
InitLogs ==
    /\ \E rows \in SUBSET (1..(LogLimit + 1)) :
          logs = [rows |-> rows, seq |-> LogLimit + 1, ever |-> rows,
                  tasks |-> [p \in LogTasks |-> "idle"]]
    /\ AcctIdle /\ SchedIdle /\ DispInit /\ TMQuiet
    /\ loading = NotLoading /\ parked = IdleCall /\ picked = NoPicks /\ info = NoInfo
    /\ selected = NoSelections /\ warmup = NoWarmup /\ proxy = NoProxy
    /\ sse = NoStream
SpecLogs == InitLogs /\ [][LogNext]_vars

(***************************************************************************)
(* Calls of parse_duration_string (rate_limit.rs lines 318-376)            *)
(***************************************************************************)
\* Inputs of the form (Nh)(Nm)(N[.N]s)(Nms), each part optional.
DurationInputs ==
    {Duration(h, m, sf[1], sf[2], ms) :
        h \in {{}, {0}, {1}, {2}}, m \in {{}, {1}, {30}},
        sf \in {<<{}, FALSE>>, <<{1}, FALSE>>, <<{1}, TRUE>>, <<{42}, FALSE>>,
                <<{42}, TRUE>>},
        ms \in {{}, {500}}}

ParseDurationString ==
    \E d \in DurationInputs :
        info' = [NoInfo EXCEPT !.op = "parse_duration_string", !.n = 1, !.input = d,
                               !.out = parse_duration_string(d)]

DurationNext ==
    ParseDurationString
        /\ UNCHANGED <<acctVars, schedVars, dispVars, tmVars, loading, parked, picked,
                       sse, logs, selected, warmup, proxy>>

SpecDuration == InitRateLimit /\ [][DurationNext]_vars

(***************************************************************************)
(* Claude mapper: close_tool_loop_for_thinking                             *)
(* (server/src/proxy/mappers/claude/thinking_utils.rs)                     *)
(***************************************************************************)
MaxMessages == 3

\* ContentBlock and MessageContent (String or Array of blocks).
TextBlock(t) == [type |-> "text", text |-> t]
ToolResultBlock == [type |-> "tool_result", text |-> ""]
ThinkingBlock == [type |-> "thinking", text |-> ""]
StringContent(t) == [array |-> FALSE, text |-> t, blocks |-> <<>>]
ArrayContent(blocks) == [array |-> TRUE, text |-> "", blocks |-> blocks]
Message(role, content) == [role |-> role, content |-> content]

Contents ==
    {StringContent("hi"), ArrayContent(<<>>), ArrayContent(<<TextBlock("hi")>>),
     ArrayContent(<<ToolResultBlock>>), ArrayContent(<<TextBlock("hi"), ToolResultBlock>>),
     ArrayContent(<<ThinkingBlock, TextBlock("hi")>>)}
Messages == {Message(r, c) : r \in {"user", "assistant"}, c \in Contents}
MessageLists == UNION {[1..n -> Messages] : n \in 0..MaxMessages}

\* lines 31-33 and 57-59: blocks.iter().any(|b| matches!(b, ...))
any_block(content, type) ==
    content.array /\ \E i \in 1..Len(content.blocks) : content.blocks[i].type = type

\* lines 12-42
analyze_conversation_state(messages) ==
    [in_tool_loop |->
        /\ messages # <<>>
        /\ messages[Len(messages)].role = "user"
        /\ any_block(messages[Len(messages)].content, "tool_result"),
     last_assistant_idx |->
        {i \in 1..Len(messages) :
            /\ messages[i].role = "assistant"
            /\ \A j \in (i + 1)..Len(messages) : messages[j].role # "assistant"}]

\* lines 67-78
SyntheticMessages ==
    <<Message("assistant",
              ArrayContent(<<TextBlock("[Tool execution completed. Please proceed.]")>>)),
      Message("user", ArrayContent(<<TextBlock("Proceed.")>>))>>

\* A variant that does not look for a thinking block.
close_tool_loop_unchecked(messages) ==
    IF analyze_conversation_state(messages).in_tool_loop
    THEN messages \o SyntheticMessages
    ELSE messages

\* lines 45-80: the message list after the call.
close_tool_loop_for_thinking(messages) ==
    IF ~analyze_conversation_state(messages).in_tool_loop THEN messages
    ELSE IF \E idx \in analyze_conversation_state(messages).last_assistant_idx :
               any_block(messages[idx].content, "thinking")
    THEN messages
    ELSE messages \o SyntheticMessages

CloseToolLoop ==
    /\ info.n = 0
    /\ \E messages \in MessageLists :
        info' = [NoInfo EXCEPT !.op = "close_tool_loop_for_thinking", !.n = 1,
                               !.input = messages,
                               !.out = close_tool_loop_for_thinking(messages)]

ThinkingNext ==
    CloseToolLoop
        /\ UNCHANGED <<acctVars, schedVars, dispVars, tmVars, loading, parked, picked,
                       sse, logs, selected, warmup, proxy>>

SpecThinking == InitRateLimit /\ [][ThinkingNext]_vars

(***************************************************************************)
(* Request mappers: the upstream envelope                                  *)
(* (server/src/proxy/mappers/gemini/wrapper.rs,                            *)
(*  src-tauri/src/proxy/mappers/openai/request.rs)                         *)
(***************************************************************************)
\* What Uuid::new_v4() can print: canonical hyphenated UUIDs of version 4.
Uuids == {"3f2b8c1e-9d4a-4e6f-8a1b-2c3d4e5f6a7b", "a1b2c3d4-e5f6-4a7b-9c8d-0e1f2a3b4c5d",
          "00000000-0000-4000-8000-000000000000"}
Projects == {"p1", "p2"}
FinalModels == {"gemini-2.5-flash", "gemini-3-pro-high", "gemini-3-pro-image"}
RequestTypes == {"agent", "web_search", "image_gen"}

\* wrapper.rs lines 221-228
wrap_request(project_id, final_model, request_type, uuid) ==
    [project |-> project_id, requestId |-> "agent-" \o uuid, model |-> final_model,
     userAgent |-> "antigravity", requestType |-> request_type]

\* request.rs lines 66-73
transform_openai_request(project_id, final_model, request_type, uuid) ==
    [project |-> project_id, requestId |-> "openai-" \o uuid, model |-> final_model,
     userAgent |-> "antigravity-openai", requestType |-> request_type]

WrapRequest ==
    /\ info.n = 0
    /\ \E pr \in Projects, fm \in FinalModels, rt \in RequestTypes, u \in Uuids :
          info' = [NoInfo EXCEPT !.op = "wrap_request", !.n = 1,
                                 !.out = wrap_request(pr, fm, rt, u)]

TransformOpenaiRequest ==
    /\ info.n = 0
    /\ \E pr \in Projects, fm \in FinalModels, rt \in RequestTypes, u \in Uuids :
          info' = [NoInfo EXCEPT !.op = "transform_openai_request", !.n = 1,
                                 !.out = transform_openai_request(pr, fm, rt, u)]

EnvelopeNext ==
    \/ WrapRequest /\ UNCHANGED <<acctVars, schedVars, dispVars, tmVars, loading, parked,
                                  picked, sse, logs, selected, warmup, proxy>>
    \/ TransformOpenaiRequest /\ UNCHANGED <<acctVars, schedVars, dispVars, tmVars, loading,
                                             parked, picked, sse, logs, selected, warmup, proxy>>

SpecEnvelope == InitRateLimit /\ [][EnvelopeNext]_vars

(***************************************************************************)
(* The selections of one get_token call                                    *)
(***************************************************************************)
\* The call c has run one more iteration of its loop (line 232) and selected
\* c.target, if any.
Tally(sel, c) ==
    [sel EXCEPT !.tries = @ + 1,
                !.count = IF c.target = NULL THEN @ ELSE [@ EXCEPT ![c.target] = @ + 1]]

\* The call starts over a pool of `total` accounts (line 210); with an empty
\* pool it returns before the loop.
Started(total, c) ==
    IF total = 0 THEN [NoSelections EXCEPT !.total = 0]
    ELSE Tally([NoSelections EXCEPT !.total = total], c)

AttemptsNext ==
    \/ /\ GetToken
       /\ selected' = Started(Cardinality(DOMAIN tokens), call')
       /\ UNCHANGED <<acctOp, acctCalls, schedVars, dispVars, loading, parked, picked, info,
                      sse, logs, warmup, proxy>>
    \/ /\ GetTokenRetry
       /\ selected' = Tally(selected, call')
       /\ UNCHANGED <<acctOp, acctCalls, schedVars, dispVars, loading, parked, picked, info,
                      sse, logs, warmup, proxy>>
    \/ LoadAccounts /\ UNCHANGED <<acctOp, acctCalls, schedVars, dispVars, auxVars>>
    \/ MarkRateLimited /\ UNCHANGED <<acctOp, acctCalls, schedVars, dispVars, auxVars>>
    \/ UpdateStickyConfig /\ UNCHANGED <<acctOp, acctCalls, schedVars, dispVars, auxVars>>
    \/ Tick /\ UNCHANGED <<acctOp, acctCalls, schedVars, dispVars, auxVars>>

\* The server token manager under sequential calls over a store whose access
\* tokens are all due for refresh, with the selections of each call counted.
SpecAttempts == InitTokenManagerOverlap /\ [][AttemptsNext]_vars

(***************************************************************************)
(* warm_up_all_accounts: the collection pass and its retry loop            *)
(***************************************************************************)
\* quota.rs lines 11-13
NEAR_READY_THRESHOLD == 80
MAX_RETRIES == 2
RETRY_DELAY_SECS == 15
MaxWarmCalls == 2

WarmModels == {"gemini-3-flash", "gemini-2.5-flash", "gemini-3-pro-high", "gemini-2.5-pro"}
WarmPercentages == {79, 80, 100}

\* What list_accounts can answer at the start of a pass: Err, or the rows of
\* the store (e1 enabled; e2 enabled or disabled).
WarmStores ==
    {{}, {NewRow(1, "e1")}, {NewRow(2, "e2")},
     {[NewRow(2, "e2") EXCEPT !.disabled = TRUE]},
     {NewRow(1, "e1"), NewRow(2, "e2")},
     {NewRow(1, "e1"), [NewRow(2, "e2") EXCEPT !.disabled = TRUE]}}
WarmListings ==
    {[ok |-> FALSE, rows |-> {}]} \cup {[ok |-> TRUE, rows |-> R] : R \in WarmStores}

\* What fetch_quota answers for one account: Err, or every model with its
\* percentage.
WarmAnswers ==
    {[ok |-> FALSE, pct |-> <<>>]} \cup
    {[ok |-> TRUE, pct |-> f] : f \in [WarmModels -> WarmPercentages]}

\* quota.rs lines 307-311: disabled accounts are skipped.
WarmCandidates(rows) == {r.email : r \in {x \in rows : ~x.disabled}}

\* quota.rs lines 313-322: the accounts whose token could be prepared and
\* whose quota was fetched.
WarmFetched(rows, prepared, q) ==
    {e \in WarmCandidates(rows) : e \in prepared /\ q[e].ok}

\* The (email, model, percentage) readings of a pass.
WarmReadings(rows, prepared, q) ==
    {<<e, m, q[e].pct[m]>> : e \in WarmFetched(rows, prepared, q), m \in WarmModels}

\* quota.rs lines 324-346: the (email, target model) items of a pass; a target
\* is pushed once per account (account_warmed_series).
warmup_items(readings) ==
    {<<t[1], model_to_ping(t[2])>> :
        t \in {x \in readings : x[3] >= FullQuota /\ model_to_ping(x[2]) \in Whitelist}}

\* quota.rs lines 323-349: some model below 100 is at the threshold or above.
has_near_ready_models(readings) ==
    \E t \in readings : t[3] < FullQuota /\ t[3] >= NEAR_READY_THRESHOLD

\* Faulty variant of may_retry: one retry more than MAX_RETRIES.
may_retry_once_more(near, retry_count) == near /\ retry_count <= MAX_RETRIES

\* quota.rs line 375
may_retry(near, retry_count) == near /\ retry_count < MAX_RETRIES

\* quota.rs lines 287-288: a call begins with retry_count = 0.
WarmUpAllAccounts ==
    /\ warmup.pc = "idle"
    /\ warmup.calls < MaxWarmCalls
    /\ warmup' = [NoWarmup EXCEPT !.pc = "collect", !.calls = warmup.calls + 1]

\* What one pass of the loop (lines 290-386) does with its readings.
WarmPassed(w, l, readings) ==
    LET pass == [w EXCEPT !.passes = @ + 1, !.readings = readings,
                          !.items = warmup_items(readings),
                          !.near = has_near_ready_models(readings)]
    IN  IF ~l.ok THEN [pass EXCEPT !.pc = "idle", !.result = "error"]
        ELSE IF l.rows = {} THEN [pass EXCEPT !.pc = "idle", !.result = "no_accounts"]
        ELSE IF pass.items # {} THEN [pass EXCEPT !.pc = "idle", !.result = "started"]
        ELSE IF may_retry(pass.near, w.retry_count)
             THEN [pass EXCEPT !.pc = "sleep", !.retry_count = @ + 1]
        ELSE [pass EXCEPT !.pc = "idle", !.result = "nothing"]

\* One pass: list_accounts, then per account the token and the quota.
WarmPass ==
    /\ warmup.pc = "collect"
    /\ \E l \in WarmListings :
       \E prepared \in SUBSET WarmCandidates(l.rows) :
       \E q \in [WarmCandidates(l.rows) -> WarmAnswers] :
          warmup' = WarmPassed(warmup, l, WarmReadings(l.rows, prepared, q))

\* quota.rs line 381: the sleep between two passes.
WarmSleep ==
    /\ warmup.pc = "sleep"
    /\ warmup' = [warmup EXCEPT !.pc = "collect", !.waited = @ + RETRY_DELAY_SECS,
                                !.readings = {}]

WarmNext ==
    \/ WarmUpAllAccounts /\ UNCHANGED <<acctVars, schedVars, dispVars, tmVars, loading, parked,
                                        picked, info, sse, logs, selected, proxy>>
    \/ WarmPass /\ UNCHANGED <<acctVars, schedVars, dispVars, tmVars, loading, parked,
                               picked, info, sse, logs, selected, proxy>>
    \/ WarmSleep /\ UNCHANGED <<acctVars, schedVars, dispVars, tmVars, loading, parked,
                                picked, info, sse, logs, selected, proxy>>

\* warm_up_all_accounts under sequential calls.
InitWarmup == AcctIdle /\ SchedIdle /\ DispInit /\ TMIdle
SpecWarmup == InitWarmup /\ [][WarmNext]_vars

(***************************************************************************)
(* ProxyServiceManager: start, stop and status under concurrent callers    *)
(***************************************************************************)
MaxProxyCalls == 4
Ports == {8045, 8046}

\* Faulty variant of is_some: start never finds an instance.
is_some_never(instance) == FALSE

\* proxy.rs line 59 (start) and line 113 (stop): instance_lock.is_some()
is_some(instance) == instance # {}

\* A caller enters start(config), stop() or status() and asks for the lock.
ProxyCall(c) ==
    /\ proxy.pc[c] = "idle"
    /\ proxy.calls < MaxProxyCalls
    /\ \E op \in {"start", "stop", "status"} : \E port \in Ports :
          proxy' = [proxy EXCEPT !.pc[c] = op, !.res[c] = "pending",
                                 !.port[c] = IF op = "start" THEN port ELSE 0,
                                 !.calls = @ + 1]

\* proxy.rs lines 57-61: start takes the write lock and returns an error when
\* an instance exists; otherwise it keeps the lock across the awaits below.
StartLock(c) ==
    /\ proxy.pc[c] = "start"
    /\ proxy.writer = "none"
    /\ proxy' = IF is_some(proxy.instance)
                THEN [proxy EXCEPT !.pc[c] = "idle", !.res[c] = "err_running"]
                ELSE [proxy EXCEPT !.pc[c] = "start_load", !.writer = c]

\* proxy.rs lines 64-69: load_accounts fails, finds no account, or finds some.
StartLoad(c) ==
    /\ proxy.pc[c] = "start_load"
    /\ \E loaded \in {"err", "none", "some"} :
          proxy' = IF loaded = "err"
                   THEN [proxy EXCEPT !.pc[c] = "idle", !.writer = "none",
                                      !.res[c] = "err_load"]
                   ELSE IF loaded = "none"
                   THEN [proxy EXCEPT !.pc[c] = "idle", !.writer = "none",
                                      !.res[c] = "err_no_accounts"]
                   ELSE [proxy EXCEPT !.pc[c] = "start_server"]

\* proxy.rs lines 78-106: AxumServer::start fails, or the server task runs and
\* the instance is stored.
StartServer(c) ==
    /\ proxy.pc[c] = "start_server"
    /\ \E bound \in BOOLEAN :
          proxy' = IF bound
                   THEN [proxy EXCEPT !.pc[c] = "idle", !.writer = "none",
                                      !.servers = @ + 1,
                                      !.instance = {proxy.port[c]},
                                      !.started = @ + 1, !.res[c] = "started"]
                   ELSE [proxy EXCEPT !.pc[c] = "idle", !.writer = "none",
                                      !.res[c] = "err_server"]

\* proxy.rs lines 111-120: stop takes the write lock, returns an error when
\* there is no instance, else takes the instance and signals the server.
StopLock(c) ==
    /\ proxy.pc[c] = "stop"
    /\ proxy.writer = "none"
    /\ proxy' = IF ~is_some(proxy.instance)
                THEN [proxy EXCEPT !.pc[c] = "idle", !.res[c] = "err_stopped"]
                ELSE [proxy EXCEPT !.pc[c] = "stop_join", !.writer = c,
                                   !.instance = {}]

\* proxy.rs lines 121-124: the server task has ended.
StopJoin(c) ==
    /\ proxy.pc[c] = "stop_join"
    /\ proxy' = [proxy EXCEPT !.pc[c] = "idle", !.writer = "none",
                              !.servers = @ - 1, !.stopped = @ + 1,
                              !.res[c] = "stopped"]

\* proxy.rs lines 128-140: status reads the instance under the read lock.
Status(c) ==
    /\ proxy.pc[c] = "status"
    /\ proxy.writer = "none"
    /\ proxy' = [proxy EXCEPT !.pc[c] = "idle", !.seen[c] = proxy.instance,
                              !.res[c] = "status"]

ProxyNext ==
    \/ \E c \in ProxyCallers :
          ProxyCall(c) /\ UNCHANGED <<acctVars, schedVars, dispVars, tmVars, loading, parked,
                                      picked, info, sse, logs, selected, warmup>>
    \/ \E c \in ProxyCallers :
          StartLock(c) /\ UNCHANGED <<acctVars, schedVars, dispVars, tmVars, loading, parked,
                                      picked, info, sse, logs, selected, warmup>>
    \/ \E c \in ProxyCallers :
          StartLoad(c) /\ UNCHANGED <<acctVars, schedVars, dispVars, tmVars, loading, parked,
                                      picked, info, sse, logs, selected, warmup>>
    \/ \E c \in ProxyCallers :
          StartServer(c) /\ UNCHANGED <<acctVars, schedVars, dispVars, tmVars, loading, parked,
                                        picked, info, sse, logs, selected, warmup>>
    \/ \E c \in ProxyCallers :
          StopLock(c) /\ UNCHANGED <<acctVars, schedVars, dispVars, tmVars, loading, parked,
                                     picked, info, sse, logs, selected, warmup>>
    \/ \E c \in ProxyCallers :
          StopJoin(c) /\ UNCHANGED <<acctVars, schedVars, dispVars, tmVars, loading, parked,
                                     picked, info, sse, logs, selected, warmup>>
    \/ \E c \in ProxyCallers :
          Status(c) /\ UNCHANGED <<acctVars, schedVars, dispVars, tmVars, loading, parked,
                                   picked, info, sse, logs, selected, warmup>>

\* ProxyServiceManager under concurrent start, stop and status calls.
InitProxy == AcctIdle /\ SchedIdle /\ DispInit /\ TMIdle
SpecProxy == InitProxy /\ [][ProxyNext]_vars

Spec == SpecTokenManager

(***************************************************************************)
(* Properties of the account store (SpecAccounts)                          *)
(***************************************************************************)
\* C10: after any sequence of add_account, upsert_account, delete_account,
\* delete_accounts and switch_account calls run one at a time, exactly one
\* account has is_current set if the store is non-empty, and none if it is
\* empty.
C10_OneCurrentIffNonEmpty ==
    IF accounts = {}
    THEN CurrentIds(accounts) = {}
    ELSE Cardinality(CurrentIds(accounts)) = 1

\* C10 happens: the current account was deleted, others remain, and one of
\* them is current now.
C10_CurrentDeletedAndReplaced ==
    /\ acctOp.op = "delete_account"
    /\ acctOp.ok
    /\ acctOp.wasCurrent
    /\ accounts # {}
    /\ Cardinality(CurrentIds(accounts)) = 1

(***************************************************************************)
(* Properties of the warm-up scheduler (SpecScheduler, SpecSchedulerDay)   *)
(***************************************************************************)
WhitelistedKey(k) == model_to_ping(k[2]) \in Whitelist

\* C8 as stated: for any (email, model), over a run of consecutive passes that
\* all observe the quota at 100, the scheduler enqueues a warm-up on the first
\* pass of the run and on none of the later ones, however long the run lasts.
\* Stated for the run that begins with the scheduler's first pass.
C8_OnePerRunHoweverLong ==
    \A k \in SchedKeys :
        (schedPass.n >= 1 /\ schedPass.steady[k]) =>
            (k \in schedPass.enq <=> schedPass.n = 1)

\* C8 as amended: for a whitelisted (email, model), a pass that observes 100
\* after a last observation that was not 100 enqueues a warm-up, and a later
\* pass of the same run at 100 enqueues none as long as less than 24 hours
\* have passed since the run's first pass.
C8_OnePerRunWithinRetention ==
    \A k \in SchedKeys :
        (schedPass.obs[k] = "full" /\ WhitelistedKey(k)) =>
            /\ schedPass.prev[k] # "full" => k \in schedPass.enq
            /\ (/\ schedPass.prev[k] = "full"
                /\ schedNow - schedPass.since[k] < HistoryRetention)
               => k \notin schedPass.enq

\* C8 happens: a pass late in a run at 100, one scan interval short of 24
\* hours after the run began, enqueues nothing.
C8_LatePassOfRunSkipped ==
    \E k \in SchedKeys :
        /\ schedPass.obs[k] = "full"
        /\ schedPass.prev[k] = "full"
        /\ WhitelistedKey(k)
        /\ schedNow - schedPass.since[k] = HistoryRetention - ScanInterval
        /\ k \notin schedPass.enq

\* C9: for a whitelisted (email, model), after a pass that observed its quota
\* below 100, the next pass that observes it at 100 enqueues a warm-up for it
\* (one task per quota model of the answer).
C9_RetriggerAfterDrop ==
    \A k \in SchedKeys :
        (/\ schedPass.obs[k] = "full"
         /\ schedPass.prev[k] = "below"
         /\ WhitelistedKey(k))
        => k \in schedPass.enq

\* C9 happens: on the third pass or later a key last seen below 100 is at 100
\* and enqueued.
C9_RetriggeredAfterEarlierRun ==
    \E k \in SchedKeys :
        /\ schedPass.n >= 3
        /\ schedPass.obs[k] = "full"
        /\ schedPass.prev[k] = "below"
        /\ WhitelistedKey(k)
        /\ k \in schedPass.enq

(***************************************************************************)
(* Properties of the OpenAI dispatch handler (SpecDispatch)                *)
(***************************************************************************)
NoRepeat(seq) == \A i, j \in 1..Len(seq) : i # j => seq[i] # seq[j]

\* C2: within one client request the handler makes at most max(pool size, 1)
\* upstream attempts and never sends two of them through the same account,
\* also while other requests advance the shared round-robin cursor.
C2_AttemptsDistinctAccounts ==
    \A r \in Reqs :
        /\ Len(reqs[r].sent) <= reqs[r].max
        /\ NoRepeat(reqs[r].sent)

\* C3: an upstream answer of 401, 403, 404, 429, 500, 503 or 529 is returned
\* to the client only when all attempts of the request are used up.
C3_EligibleStatusRotates ==
    \A r \in Reqs :
        (/\ reqs[r].pc = "done"
         /\ reqs[r].kind = "upstream"
         /\ reqs[r].status \in RotationEligible)
        => Len(reqs[r].sent) >= reqs[r].max

\* C4: when no account can serve the request, because the pool is empty or
\* because every attempt of the loop failed, the client receives HTTP 429 with
\* the account-exhaustion body.
C4_NoAccountGives429 ==
    \A r \in Reqs :
        (/\ reqs[r].pc = "done"
         /\ reqs[r].kind \in {"token_error_empty", "exhausted"})
        => (reqs[r].status = 429 /\ reqs[r].kind = "exhausted")

(***************************************************************************)
(* Properties of the server token manager (SpecTokenManager). A step that  *)
(* changes call.n is the first iteration of a get_token call, with the     *)
(* call's arguments in call'; a step that changes call and leaves it       *)
(* "done" is the return of a call.                                         *)
(***************************************************************************)
CallStarts == call'.n # call.n
CallReturns == call' # call /\ call'.pc = "done"

\* The account the session of the starting call is bound to, and its
\* remaining wait, as the call finds them.
BoundAccount == Binding(session_accounts, call'.sid)
BoundWait == get_remaining_wait(limits, now.t, BoundAccount, NULL)

\* A non-rotating call with a session that is bound when the call starts.
StickyCallStarts ==
    /\ CallStarts
    /\ ~call'.force
    /\ call'.sid # NULL
    /\ BoundAccount # NULL

\* C1: a get_token call made while account A is rate-limited does not return
\* A, neither by the 60-second last-used reuse nor by round-robin; the only
\* exception is the CacheFirst sticky path, which returns A after sleeping out
\* its remaining wait.
C1_RateLimitedNotReturned ==
    [][(/\ CallReturns
        /\ call'.result # NULL
        /\ is_rate_limited(limits, now.t, call'.result, NULL))
       => (call'.via = "sticky_wait" /\ call'.slept > 0)]_vars

\* C5: in CacheFirst or Balance mode, if get_token(force_rotate=false,
\* session=S) returned A, the next get_token(force_rotate=false, session=S)
\* returns A too, provided A is still in the pool and not rate-limited then.
\* Stated for two calls in a row that both return from their first iteration
\* by the sticky, last-used or round-robin path.
C5_SessionKeepsAccount ==
    [][(/\ call.pc = "done"
        /\ call.sid # NULL
        /\ ~call.force
        /\ call.mode \in {"CacheFirst", "Balance"}
        /\ call.result # NULL
        /\ call.via # "rotation"
        /\ CallStarts
        /\ call'.sid = call.sid
        /\ ~call'.force
        /\ call'.pc = "done"
        /\ call'.via # "rotation"
        /\ call.result \in DOMAIN tokens
        /\ ~is_rate_limited(limits, now.t, call.result, NULL))
       => call'.result = call.result]_vars

\* The sticky call finds its bound account with a wait CacheFirst sits out.
WaitsForBound ==
    /\ StickyCallStarts
    /\ call'.mode = "CacheFirst"
    /\ BoundWait > 0
    /\ BoundWait <= call'.max_wait

SleepsAndStaysBound ==
    /\ call'.slept = BoundWait
    /\ now'.t = now.t + from_secs(BoundWait)
    /\ Binding(session_accounts', call'.sid) = BoundAccount

\* C6 as stated: in CacheFirst mode, when S is bound to A and A's remaining
\* wait W satisfies 0 < W <= max_wait_seconds, get_token(false, S) sleeps W
\* seconds and then returns A, and S stays bound to A. (A call that does not
\* return from this iteration has A among its attempted accounts and cannot
\* return it later.)
C6_WaitsAndReturnsBound ==
    [][WaitsForBound =>
          /\ SleepsAndStaysBound
          /\ call'.pc = "done"
          /\ call'.result = BoundAccount]_vars

\* C6 as amended: in CacheFirst mode, when S is bound to A, A is still in the
\* pool and 0 < W <= max_wait_seconds, get_token(false, S) sleeps W seconds
\* and S stays bound to A through the call; the call returns A provided A's
\* token refresh and project lookup succeed, and otherwise goes on to an
\* account it has not attempted.
C6_WaitsAndReturnsBoundIfUsable ==
    [][/\ (WaitsForBound /\ BoundAccount \in DOMAIN tokens)
          => /\ SleepsAndStaysBound
             /\ (call'.pc = "done" /\ call'.err = "none")
                => call'.result = BoundAccount
       /\ (call.pc = "retry" /\ call.slept > 0)
          => /\ session_accounts' = session_accounts
             /\ call'.result # NULL => call'.result \notin call.attempted]_vars

\* C6 happens: a call slept for its session's account and returned it.
C6_SleptAndReturnedBound ==
    /\ call.pc = "done"
    /\ call.mode = "CacheFirst"
    /\ call.via = "sticky_wait"
    /\ call.slept > 0
    /\ call.result # NULL
    /\ call.result = Binding(session_accounts, call.sid)

\* C7: when S is bound to A and A's remaining wait is greater than
\* max_wait_seconds (CacheFirst) or greater than 0 (Balance),
\* get_token(false, S) removes the binding without sleeping, and after the
\* call S is not bound to A.
C7_DropsBindingWithoutSleeping ==
    [][/\ (/\ StickyCallStarts
           /\ \/ call'.mode = "CacheFirst" /\ BoundWait > call'.max_wait
              \/ call'.mode = "Balance" /\ BoundWait > 0)
          => /\ call'.dropped
             /\ call'.slept = 0
             /\ now'.t = now.t
             /\ Binding(session_accounts', call'.sid) # BoundAccount
       /\ call.pc = "retry"
          => /\ session_accounts' = session_accounts
             /\ call'.slept = call.slept
             /\ now' = now]_vars

\* C7 happens: a CacheFirst call dropped its session's binding without
\* sleeping, and returned.
C7_DroppedInCacheFirst ==
    /\ call.pc = "done"
    /\ call.mode = "CacheFirst"
    /\ call.dropped
    /\ call.slept = 0
    /\ call.result # NULL

(***************************************************************************)
(* Properties of the account store under concurrency (SpecAccountsConc)    *)
(***************************************************************************)
AllReturned == \A p \in Tasks : acctCalls.task[p].pc = "idle"

\* C11: under any interleaving of concurrent add_account, delete_account and
\* switch_account calls, no observer sees two accounts with is_current set,
\* and once every call has returned a non-empty store has exactly one current
\* account.
C11_OneCurrentUnderConcurrency ==
    /\ Cardinality(CurrentIds(accounts)) <= 1
    /\ (AllReturned /\ accounts # {}) => Cardinality(CurrentIds(accounts)) = 1

(***************************************************************************)
(* Properties of the token manager with concurrent loads                   *)
(* (SpecTokenManagerLoad)                                                  *)
(***************************************************************************)
\* C12: however load_accounts, disable_account and get_token interleave, an
\* account the token manager has disabled (and the store still has as disabled)
\* is not in the in-memory rotation set and is not the account a get_token
\* call returned.
C12_DisabledOutOfRotation ==
    \A r \in accounts :
        r.disabled => /\ r.id \notin DOMAIN tokens
                      /\ ~(call.pc = "done" /\ call.result = r.id)

(***************************************************************************)
(* Properties of token refresh (SpecTokenManagerOverlap)                   *)
(***************************************************************************)
\* One iteration of a get_token call ran in this step.
IterationStep ==
    /\ parked' = parked
    /\ call' # call
    /\ call'.n # call.n \/ call.pc = "retry"

\* The accounts this step issued a refresh request for.
RefreshedNow ==
    IF call'.n # call.n THEN call'.refreshed ELSE call'.refreshed \ call.refreshed

\* C13: the account a get_token iteration selects is sent a refresh request
\* if and only if now >= expiry - 300 s, expiry being the account's in-memory
\* expiry when the iteration runs (as load_accounts or the last successful
\* refresh wrote it); an account more than 300 s from expiry is not refreshed.
C13_RefreshIffDue ==
    [][(IterationStep /\ call'.target # NULL /\ call'.target \in DOMAIN tokens)
        => (call'.target \in RefreshedNow
              <=> needs_refresh(as_secs(now'.t), tokens[call'.target].timestamp))]_vars

(***************************************************************************)
(* Tier order of the first selection                                       *)
(***************************************************************************)
\* The best (smallest) tier priority among the accounts of the pool.
BestPriority(toks) ==
    CHOOSE p \in 0..3 :
        /\ \E id \in DOMAIN toks : tier_priority(toks[id].subscription_tier) = p
        /\ \A id \in DOMAIN toks : tier_priority(toks[id].subscription_tier) >= p

\* load_accounts has run and nothing was selected since: the cursor and the
\* last-used account are as it left them.
FreshlyLoaded ==
    tokens # <<>> /\ current_index = 0 /\ last_used_account = NoLastUsed

\* No account of the pool is rate-limited, due for a refresh or without a
\* project.
PoolHealthy ==
    \A id \in DOMAIN tokens :
        /\ ~is_rate_limited(limits, now.t, id, NULL)
        /\ ~needs_refresh(as_secs(now.t), tokens[id].timestamp)
        /\ tokens[id].has_project

\* C14: the first get_token call after load_accounts, with no account of
\* the pool rate-limited and the caller's session not bound, selects an
\* account of the best tier the pool holds (ULTRA, then PRO, then FREE, then
\* unknown); when every account is healthy the call returns that account.
C14_FirstCallTakesBestTier ==
    [][(/\ call'.n # call.n
        /\ FreshlyLoaded
        /\ \A id \in DOMAIN tokens : ~is_rate_limited(limits, now.t, id, NULL)
        /\ Binding(session_accounts, call'.sid) = NULL)
       => /\ call'.target \in DOMAIN tokens
          /\ tier_priority(tokens[call'.target].subscription_tier) = BestPriority(tokens)
          /\ call'.pc = "done" => call'.result = call'.target
          /\ PoolHealthy => call'.pc = "done"]_vars

\* The first call after a load returned the ULTRA account of a healthy pool
\* that also holds a FREE account listed before it.
C14_UltraReturnedFirst ==
    /\ call.pc = "done" /\ call.result = "a2" /\ call.refreshed = {}
    /\ current_index = 1
    /\ {"a1", "a2"} \subseteq DOMAIN tokens
    /\ tokens["a1"].subscription_tier = "FREE"
    /\ tokens["a2"].subscription_tier = "ULTRA"
    /\ PoolHealthy

(***************************************************************************)
(* Fairness of forced rotation                                             *)
(***************************************************************************)
RECURSIVE PickedOver(_, _)
PickedOver(pk, S) ==
    IF S = {} THEN 0
    ELSE LET x == CHOOSE y \in S : TRUE IN pk[x] + PickedOver(pk, S \ {x})

KeysOf(account, model) ==
    {account} \cup (IF model = NULL THEN {} ELSE {account \o ":" \o model})

\* The map without the entries whose reset_time has passed.
Unexpired(lim, t) == [k \in {x \in DOMAIN lim : ~(lim[x] <= t)} |-> lim[k]]

\* C16: is_rate_limited(account, model) is true exactly when the map has an
\* entry under "account" or "account:model" whose reset_time is later than
\* now; and is_rate_limited, get_remaining_wait and get_reset_seconds answer
\* the same on the map as on the map without its expired entries, and as on
\* the map cleanup_expired would leave.
C16_ExpiredEntryIsNoEntry ==
    \A a \in RLAccounts, m \in ModelChoices :
        /\ is_rate_limited(limits, now.t, a, m)
             <=> \E k \in KeysOf(a, m) : k \in DOMAIN limits /\ limits[k] > now.t
        /\ \A lim \in {Unexpired(limits, now.t), cleanup_expired(limits, now.t)} :
             /\ is_rate_limited(lim, now.t, a, m) = is_rate_limited(limits, now.t, a, m)
             /\ get_remaining_wait(lim, now.t, a, m)
                  = get_remaining_wait(limits, now.t, a, m)
             /\ get_reset_seconds(lim, now.t, a, m)
                  = get_reset_seconds(limits, now.t, a, m)

\* cleanup_expired has run, and the map holds an entry of a1 that has expired
\* since and that the next cleanup_expired would remove.
C16_ExpiredEntryKept ==
    /\ info.op = "cleanup_expired"
    /\ "a1" \in DOMAIN limits /\ limits["a1"] <= now.t
    /\ ~is_rate_limited(limits, now.t, "a1", NULL)
    /\ cleanup_expired(limits, now.t) # limits

\* The whole seconds left of the entry under key k: Duration::as_secs of
\* reset_time - now.
SecondsLeft(k) == (limits[k] - now.t) \div TicksPerSec

\* C17: get_remaining_wait(account, model) is the largest of the remaining
\* waits, in whole seconds, of the active entries under "account" and
\* "account:model", and 0 when neither key has an active entry.
C17_RemainingWaitIsLargest ==
    \A a \in RLAccounts, m \in ModelChoices :
        LET active == {k \in KeysOf(a, m) : k \in DOMAIN limits /\ limits[k] > now.t}
            wait == get_remaining_wait(limits, now.t, a, m)
        IN /\ active = {} => wait = 0
           /\ active # {} => /\ \E k \in active : wait = SecondsLeft(k)
                              /\ \A j \in active : wait >= SecondsLeft(j)

\* a1 has an active account-level entry and a longer active entry for m1.
C17_ModelEntryLonger ==
    /\ {"a1", "a1:m1"} \subseteq DOMAIN limits
    /\ limits["a1"] > now.t
    /\ SecondsLeft("a1:m1") > SecondsLeft("a1")
    /\ SecondsLeft("a1") > 0
    /\ get_remaining_wait(limits, now.t, "a1", "m1") = SecondsLeft("a1:m1")

(***************************************************************************)
(* parse_from_error                                                        *)
(***************************************************************************)
\* The last call was a parse_from_error that recorded an entry.
Recorded == info.op = "parse_from_error" /\ info.out # {}
RecordedInfo == CHOOSE i \in info.out : TRUE
RecordedKey ==
    IF info.model = NULL THEN info.account ELSE info.account \o ":" \o info.model

\* C18: the entry parse_from_error records has retry_after_sec >= 2 and a
\* reset_time at least 2 seconds after the moment of recording, whatever the
\* header and the body hold.
C18_TwoSecondMinimum ==
    Recorded =>
        /\ RecordedInfo.retry_after_sec >= 2
        /\ RecordedInfo.reset_time >= RecordedInfo.detected_at + 2 * TicksPerSec
        /\ RecordedKey \in DOMAIN limits
        /\ limits[RecordedKey] = RecordedInfo.reset_time

\* A Retry-After header of 0 was recorded as 2 seconds, and so was a body
\* whose retry_after is 0.
C18_ZeroBuffered ==
    /\ Recorded
    /\ RecordedInfo.retry_after_sec = 2
    /\ \/ info.input.header = SecondsHeader(0)
       \/ /\ info.input.header = NoHeader
          /\ info.input.body.json /\ info.input.body.delay = {}
          /\ info.input.body.retry_after = {0}

\* The value each source of the retry delay yields, {} when it yields none.
FromHeader == IF info.input.header.kind = "seconds" THEN {info.input.header.n} ELSE {}
FromQuotaResetDelay ==
    IF info.input.body.json
    THEN UNION {parse_duration_string(d) : d \in info.input.body.delay}
    ELSE {}
FromRetryAfter == IF info.input.body.json THEN info.input.body.retry_after ELSE {}
FromText ==
    {info.input.body.text[p] : p \in {q \in DOMAIN info.input.body.text :
                                        \A r \in DOMAIN info.input.body.text : q <= r}}
FirstSource ==
    IF FromHeader # {} THEN FromHeader
    ELSE IF FromQuotaResetDelay # {} THEN FromQuotaResetDelay
    ELSE IF FromRetryAfter # {} THEN FromRetryAfter
    ELSE FromText
ReasonDefault ==
    [QuotaExhausted |-> 3600, ModelCapacityExhausted |-> 120, RateLimitExceeded |-> 30,
     ServerError |-> 20, Unknown |-> 60]

\* C19: the delay parse_from_error records comes from the first source that
\* yields a value, in the order Retry-After header, quotaResetDelay,
\* error.retry_after, text pattern (raised to the 2-second minimum), and is
\* the default of the classified reason only when no source yields one.
C19_FirstSourceWins ==
    Recorded =>
        /\ \A v \in FirstSource :
               RecordedInfo.retry_after_sec = (IF v < 2 THEN 2 ELSE v)
        /\ FirstSource = {} =>
               RecordedInfo.retry_after_sec = ReasonDefault[RecordedInfo.reason]

\* With a header that is not a number and a quotaResetDelay of "0s", the
\* delay came from error.retry_after although a text pattern matched too.
C19_RetryAfterUsed ==
    /\ Recorded
    /\ info.input.header = TextHeader
    /\ info.input.body.json
    /\ info.input.body.delay = {Seconds(0)}
    /\ info.input.body.retry_after = {7}
    /\ DOMAIN info.input.body.text # {}
    /\ RecordedInfo.retry_after_sec = 7

(***************************************************************************)
(* Model-level limits                                                      *)
(***************************************************************************)
\* This step is a parse_from_error that stored an entry, or a
\* set_lockout_until, made with a model.
RecordsWithModel ==
    /\ info'.n # info.n
    /\ \/ info'.op = "parse_from_error" /\ info'.out # {}
       \/ info'.op = "set_lockout_until"
    /\ info'.model # NULL

\* C20: a limit recorded with a model m is stored under "account:m" and
\* nowhere else: every other key keeps its entry, is_rate_limited(account)
\* without a model and is_rate_limited(account, m') for every other model m'
\* answer as before, and so does is_rate_limited for every other account.
C20_ModelLimitStaysLocal ==
    [][RecordsWithModel =>
        LET a == info'.account
            m == info'.model
            key == a \o ":" \o m
        IN /\ key \in DOMAIN limits'
           /\ \A k \in (DOMAIN limits \cup DOMAIN limits') \ {key} :
                 k \in DOMAIN limits /\ k \in DOMAIN limits' /\ limits'[k] = limits[k]
           /\ is_rate_limited(limits', now'.t, a, NULL)
                 = is_rate_limited(limits, now.t, a, NULL)
           /\ \A m2 \in RLModels \ {m} :
                 is_rate_limited(limits', now'.t, a, m2)
                   = is_rate_limited(limits, now.t, a, m2)
           /\ \A b \in RLAccounts \ {a}, m2 \in ModelChoices :
                 is_rate_limited(limits', now'.t, b, m2)
                   = is_rate_limited(limits, now.t, b, m2)]_vars

\* a1 is limited for m1 only: not without a model, not for m2; a2 holds an
\* older entry of its own.
C20_LimitedForOneModel ==
    /\ info.account = "a1" /\ info.model = "m1"
    /\ info.op \in {"parse_from_error", "set_lockout_until"}
    /\ is_rate_limited(limits, now.t, "a1", "m1")
    /\ ~is_rate_limited(limits, now.t, "a1", NULL)
    /\ ~is_rate_limited(limits, now.t, "a1", "m2")
    /\ "a2" \in DOMAIN limits

(***************************************************************************)
(* Statuses that record nothing                                            *)
(***************************************************************************)
\* This step is a parse_from_error call (mark_rate_limited passes its
\* arguments on to it) with a status other than 429, 500, 503 and 529.
ParsesOtherStatus ==
    /\ info'.n # info.n
    /\ info'.op = "parse_from_error"
    /\ info'.input.status \notin {429, 500, 503, 529}

\* C21: for a status other than 429, 500, 503 and 529, parse_from_error
\* returns None and leaves the map as it was, so is_rate_limited answers the
\* same for every account and model before and after the call.
C21_OtherStatusRecordsNothing ==
    [][ParsesOtherStatus =>
        /\ info'.out = {}
        /\ limits' = limits
        /\ \A a \in RLAccounts, m \in ModelChoices :
              is_rate_limited(limits', now'.t, a, m)
                = is_rate_limited(limits, now.t, a, m)]_vars

\* A 404 reported for a1 while a1 was rate-limited: nothing was returned and
\* a1's entry is still the only one.
C21_NotFoundIgnored ==
    /\ info.op = "parse_from_error" /\ info.input.status = 404
    /\ info.account = "a1" /\ info.model = NULL
    /\ info.out = {}
    /\ DOMAIN limits = {"a1"}
    /\ is_rate_limited(limits, now.t, "a1", NULL)

(***************************************************************************)
(* What load_accounts leaves                                               *)
(***************************************************************************)
\* This step is the return of a load_accounts call.
LoadReturns == loading.active /\ ~loading'.active

\* C22: when load_accounts returns Ok(n), the pool holds exactly the accounts
\* of the store that are not disabled, n is their number, the cursor is 0 and
\* last_used_account is empty.
C22_LoadLeavesEnabledAccounts ==
    [][LoadReturns =>
        LET enabled == {r.id : r \in {x \in accounts' : ~x.disabled}}
        IN /\ DOMAIN tokens' = enabled
           /\ loading'.n = Cardinality(enabled)
           /\ current_index' = 0
           /\ last_used_account' = NoLastUsed]_vars

(***************************************************************************)
(* Properties of the OpenAI stream (SpecStream)                            *)
(***************************************************************************)
NotError(e) == e.kind # "error"
IsChunk(e) == e.kind = "chunk"
IsDone(e) == e.kind = "done"

\* C23: however the upstream bytes are split into chunks, the stream emits the
\* events (number, order, content, finish_reason) it emits when the same bytes
\* arrive as a single chunk.
C23_ChunkingDoesNotMatter ==
    sse.done =>
        SelectSeq(sse.out, NotError) = on_chunk(<<>>, sse.upstream).events \o <<DoneEvent>>

\* C23 happens: of two frames one at least was split between chunks, and both
\* events came out.
C23_SplitFrames ==
    /\ sse.done
    /\ sse.upstream = <<"D", "t", NL, "D", "f", NL>>
    /\ sse.split
    /\ Len(SelectSeq(sse.out, IsChunk)) = 2

\* C24: the stream ends with exactly one [DONE] event, emitted at upstream EOF
\* after every content event, whether or not the upstream sent [DONE] frames
\* and whether or not transport errors occurred.
C24_OneDoneAtTheEnd ==
    /\ Len(SelectSeq(sse.out, IsDone)) = (IF sse.done THEN 1 ELSE 0)
    /\ sse.done => sse.out[Len(sse.out)] = DoneEvent

\* C24 happens: the upstream sent a [DONE] frame and a content frame, a
\* transport error occurred, and the stream ended.
C24_DoneAfterUpstreamDone ==
    /\ sse.done
    /\ sse.failed
    /\ sse.upstream = <<"D", "$", NL, "D", "t", NL>>
    /\ Len(SelectSeq(sse.out, IsChunk)) = 1

(***************************************************************************)
(* Properties of the proxy log store (SpecLogs)                            *)
(***************************************************************************)
\* Some record task was spawned and every spawned task has completed.
TasksCompleted ==
    /\ \E p \in LogTasks : logs.tasks[p] = "done"
    /\ \A p \in LogTasks : logs.tasks[p] \in {"idle", "done"}

SecondsWritten(d) ==
    PartOf(d.h) * 3600 + PartOf(d.m) * 60
    + PartOf(d.s) + (IF d.s # {} /\ d.frac THEN 1 ELSE 0)
    + (PartOf(d.ms) + 999) \div 1000

\* C26: for an input (Nh)(Nm)(N[.N]s)(Nms) that is not zero in all, the result
\* is hours * 3600 + minutes * 60 + seconds rounded up + milliseconds rounded
\* up to whole seconds; "500ms" gives 1.
C26_DurationInSeconds ==
    (info.op = "parse_duration_string" /\ SecondsWritten(info.input) > 0)
        => info.out = {SecondsWritten(info.input)}

(***************************************************************************)
(* Properties of close_tool_loop_for_thinking (SpecThinking)               *)
(***************************************************************************)
HasBlock(msg, type) ==
    msg.content.array /\ \E i \in 1..Len(msg.content.blocks) : msg.content.blocks[i].type = type

\* The last message is a user message with a tool_result block, and the
\* assistant message that precedes it most closely, if there is one, has no
\* thinking block.
BrokenToolLoop(msgs) ==
    /\ msgs # <<>>
    /\ msgs[Len(msgs)].role = "user"
    /\ HasBlock(msgs[Len(msgs)], "tool_result")
    /\ \A i \in 1..Len(msgs) :
          (msgs[i].role = "assistant"
             /\ \A j \in (i + 1)..Len(msgs) : msgs[j].role # "assistant")
          => ~HasBlock(msgs[i], "thinking")

\* C27: close_tool_loop_for_thinking appends the assistant text "[Tool
\* execution completed. Please proceed.]" and the user text "Proceed." exactly
\* when the last message is a user message with a tool_result block and the
\* assistant message before it has no thinking block; otherwise the list is
\* unchanged; the messages already there are never modified.
C27_ClosesBrokenToolLoop ==
    info.op = "close_tool_loop_for_thinking" =>
        /\ SubSeq(info.out, 1, Len(info.input)) = info.input
        /\ IF BrokenToolLoop(info.input)
           THEN info.out =
                  info.input \o
                    <<[role |-> "assistant",
                       content |-> [array |-> TRUE, text |-> "",
                                    blocks |-> <<[type |-> "text",
                                       text |-> "[Tool execution completed. Please proceed.]"]>>]],
                      [role |-> "user",
                       content |-> [array |-> TRUE, text |-> "",
                                    blocks |-> <<[type |-> "text", text |-> "Proceed."]>>]]>>
           ELSE info.out = info.input

\* C27 happens: an assistant message without thinking, then a tool result; two
\* messages were appended.
C27_LoopClosed ==
    /\ info.op = "close_tool_loop_for_thinking"
    /\ info.input = <<Message("assistant", ArrayContent(<<TextBlock("hi")>>)),
                      Message("user", ArrayContent(<<TextBlock("hi"), ToolResultBlock>>))>>
    /\ Len(info.out) = 4

(***************************************************************************)
(* Properties of the upstream envelope (SpecEnvelope)                      *)
(***************************************************************************)
\* C28: every envelope a request mapper builds, wrap_request and
\* transform_openai_request alike, has a requestId made of "agent-" and a
\* canonical UUID.
C28_RequestIdHasAgentPrefix ==
    info.op \in {"wrap_request", "transform_openai_request"} =>
        info.out.requestId \in {"agent-" \o u : u \in Uuids}

(***************************************************************************)
(* Properties of invalid_grant handling (SpecTokenManagerLoad)             *)
(***************************************************************************)
\* The accounts disable_account was run for in this step.
DisabledNow ==
    {r.id : r \in {x \in accounts' : x.disabled}} \ {r.id : r \in {x \in accounts : x.disabled}}

\* C29: when the refresh of the selected account A fails with invalid_grant,
\* get_token marks A disabled in the store, removes A from the pool and goes
\* on with the loop (another account, or the error when none is left); neither
\* this call nor a later one returns A.
C29_InvalidGrantRetiresAccount ==
    [][/\ \A id \in DisabledNow :
             /\ id \notin DOMAIN tokens'
             /\ call'.target = id
             /\ call'.pc = "retry" \/ (call'.pc = "done" /\ call'.err = "failed")
       /\ \A r \in accounts' :
             (r.disabled /\ call'.pc = "done" /\ call'.n > 0) => call'.result # r.id]_vars

(***************************************************************************)
(* Properties of get_token's loop (SpecAttempts)                           *)
(***************************************************************************)
\* C30: a get_token call runs its selection at most as many times as the pool
\* had accounts when the call started, and selects no account more than once.
C30_BoundedAttemptsNoRepeat ==
    /\ selected.tries <= selected.total
    /\ \A id \in TMIds : selected.count[id] <= 1

\* C30 happens: a call over the full pool selected every account once, each
\* failed, and the call ended with the error after the loop.
C30_EveryAccountTriedOnce ==
    /\ call.pc = "done" /\ call.err = "failed"
    /\ selected.total = MaxAccounts
    /\ selected.tries = MaxAccounts
    /\ \A id \in TMIds : selected.count[id] = 1

(***************************************************************************)
(* Properties of the "all limited" error (SpecTokenManager)                *)
(***************************************************************************)
\* The accounts of the pool that are rate-limited after this step.
LimitedInPool == {id \in DOMAIN tokens' : is_rate_limited(limits', now'.t, id, NULL)}

\* This step ends a get_token call with the "all accounts limited" error.
FailsAllLimited ==
    /\ call'.n # call.n \/ call.pc = "retry"
    /\ call'.pc = "done"
    /\ call'.err = "all_limited"

\* C31: the wait N of the "all accounts limited" error is the smallest
\* remaining wait among the rate-limited accounts of the pool: in whole
\* seconds, rounded down or up, the time to the earliest reset.
C31_ErrorStatesSmallestWait ==
    [][(FailsAllLimited /\ LimitedInPool # {}) =>
         \E id \in LimitedInPool :
            /\ \A other \in LimitedInPool : limits'[id] <= limits'[other]
            /\ as_secs(limits'[id] - now'.t) <= call'.min_wait
            /\ call'.min_wait <= as_secs(limits'[id] - now'.t + TicksPerSec - 1)]_vars

(***************************************************************************)
(* Properties of the round-robin pick (SpecTokenManager)                   *)
(***************************************************************************)
\* This step ran an iteration of get_token that selected its target by round
\* robin: on a first attempt (mode B) or on a rotation (mode C).
PicksByRoundRobin ==
    /\ call'.n # call.n \/ call.pc = "retry"
    /\ call'.target # NULL
    /\ call'.via \in {"round_robin", "rotation"}

\* C32: a round-robin pick, on a first attempt or on a rotation, sets
\* last_used_account to the account picked and, when a session id was given
\* and the mode is not PerformanceFirst, binds the session to it.
C32_RoundRobinSetsLastUsed ==
    [][PicksByRoundRobin =>
         /\ last_used_account'.id = call'.target
         /\ (call'.sid # NULL /\ call'.mode # "PerformanceFirst")
               => Binding(session_accounts', call'.sid) = call'.target]_vars

(***************************************************************************)
(* Properties of the scheduler's scan (SpecSchedulerDisabled, SpecScheduler) *)
(***************************************************************************)
\* C33: a pass of the warm-up scheduler enqueues no warm-up task for an
\* account whose disabled flag is set in the store.
C33_NoWarmupForDisabled ==
    \A k \in schedPass.enq : \A r \in accounts : r.email = k[1] => ~r.disabled

\* The warm-up tasks one pass enqueues for an account and a target model: one
\* task per enqueued history key whose model maps to the target.
TasksFor(email, target) ==
    {k \in schedPass.enq : k[1] = email /\ model_to_ping(k[2]) = target}

\* C39: one pass of the warm-up scheduler enqueues at most one warm-up task
\* per (email, target model), the target being the name after the remapping of
\* gemini-2.5-flash to gemini-3-flash.
C39_OneTaskPerTarget ==
    \A email \in SchedEmails : \A target \in Whitelist :
        Cardinality(TasksFor(email, target)) <= 1

(***************************************************************************)
(* Properties of warm_up_all_accounts (SpecWarmup)                         *)
(***************************************************************************)
\* This step is a pass that ends in the sleep before a retry.
WarmRetries == warmup.pc = "collect" /\ warmup'.pc = "sleep"

\* The steps a call in progress can still take: two per pass it may still
\* run (the pass and the sleep after it) and the sleep it is in, none once it
\* has returned.
WarmStepsLeft(w) ==
    IF w.pc = "idle" THEN 0
    ELSE 2 * (MAX_RETRIES + 1 - w.passes) + (IF w.pc = "sleep" THEN 1 ELSE 0)

\* C34: warm_up_all_accounts always returns: a call runs the collection pass
\* at most three times (the first pass and at most MAX_RETRIES retries, each
\* after a sleep of RETRY_DELAY_SECS), every step of a call in progress brings
\* it closer to its return, and it retries only after a pass that found
\* nothing to warm and read some model at 80% or more but below 100%.
C34_ReturnsAfterAtMostThreePasses ==
    /\ [](warmup.passes <= MAX_RETRIES + 1)
    /\ [](warmup.pc # "sleep" => warmup.waited = RETRY_DELAY_SECS * warmup.retry_count)
    /\ [](warmup.pc # "idle" => WarmStepsLeft(warmup) > 0)
    /\ [][warmup.pc # "idle" => WarmStepsLeft(warmup') < WarmStepsLeft(warmup)]_vars
    /\ [][WarmRetries =>
            /\ ~\E t \in warmup'.readings :
                  t[3] >= 100 /\ model_to_ping(t[2]) \in Whitelist
            /\ \E t \in warmup'.readings : t[3] >= 80 /\ t[3] < 100]_vars

\* C34 happens: a call returned after its third pass, two sleeps after it began.
C34_ThreePasses ==
    /\ warmup.pc = "idle"
    /\ warmup.passes = 3
    /\ warmup.waited = 30
    /\ warmup.result = "nothing"

(***************************************************************************)
(* Properties of ProxyServiceManager (SpecProxy)                           *)
(***************************************************************************)
\* This step returns res to caller c.
ProxyReturns(c, res) == proxy.res[c] = "pending" /\ proxy'.res[c] = res

\* C38: under any interleaving of start, stop and status calls at most one
\* proxy instance exists. A start succeeds only from the stopped state; it
\* returns an error and changes nothing when an instance is running, and a
\* start that fails otherwise leaves the manager stopped. A stop succeeds only
\* from the running state. The successful starts outnumber the successful
\* stops by one at most, so of several concurrent starts at most one succeeds.
C38_AtMostOneInstance ==
    /\ [](proxy.servers <= 1)
    /\ [](proxy.started - proxy.stopped = proxy.servers)
    /\ [](proxy.writer = "none" => Cardinality(proxy.instance) = proxy.servers)
    /\ [][\A c \in ProxyCallers :
            /\ ProxyReturns(c, "started") =>
                  proxy.instance = {} /\ proxy.servers = 0 /\ proxy'.servers = 1
            /\ ProxyReturns(c, "err_running") =>
                  /\ proxy.instance # {}
                  /\ proxy'.instance = proxy.instance
                  /\ proxy'.servers = proxy.servers
            /\ (\E e \in {"err_load", "err_no_accounts", "err_server"} : ProxyReturns(c, e)) =>
                  proxy'.instance = {} /\ proxy'.servers = 0
            /\ ProxyReturns(c, "stopped") =>
                  proxy.servers = 1 /\ proxy'.servers = 0 /\ proxy'.instance = {}
            /\ ProxyReturns(c, "err_stopped") =>
                  proxy.instance = {} /\ proxy'.servers = 0]_vars

\* C38 happens: of two concurrent starts one succeeded and the other was
\* refused, and the third caller is about to start while the server runs.
C38_SecondStartRefused ==
    /\ proxy.res["p1"] = "started"
    /\ proxy.res["p2"] = "err_running"
    /\ proxy.pc["p3"] = "start"
    /\ proxy.servers = 1

(***************************************************************************)
(* Properties of records under a key that holds an entry (SpecOverwrite)   *)
(***************************************************************************)
\* This step is a parse_from_error call that stored an entry.
StoresEntry ==
    /\ info'.n # info.n
    /\ info'.op = "parse_from_error"
    /\ info'.out # {}

\* C36: recording a new limit never shortens a lockout: after parse_from_error
\* stores an entry under a key, the key's reset_time is not earlier than the
\* reset_time of the active entry the key held before the call.
C36_RecordNeverShortensLockout ==
    [][(/\ StoresEntry
        /\ ActiveEntry(limits, now.t, LimitKey(info'.account, info'.model)))
          => limits'[LimitKey(info'.account, info'.model)]
                >= limits[LimitKey(info'.account, info'.model)]]_vars

(***************************************************************************)
(* Properties of a stream whose upstream fails (SpecStream)                *)
(***************************************************************************)
\* The positions of the error events emitted so far.
ErrorPositions == {i \in DOMAIN sse.out : sse.out[i].kind = "error"}

\* C35: when the upstream fails in the middle of a streaming response, the
\* stream emits exactly one error event and no content event after it.
C35_ErrorEventIsTerminal ==
    sse.failed =>
        /\ Cardinality(ErrorPositions) = 1
        /\ \A i \in ErrorPositions : \A j \in DOMAIN sse.out : j > i => ~IsChunk(sse.out[j])

(***************************************************************************)
(* Properties of a burst of overlapping get_token calls (SpecBurst)        *)
(***************************************************************************)
\* This step returns from a call that passed force_rotate = false and no
\* session id for a group other than image_gen.
BurstCallReturns ==
    /\ call.pc = "lock"
    /\ call'.pc = "done"
    /\ call'.n = call.n
    /\ ~call.force /\ call.sid = NULL /\ call.group # "image_gen"

\* A pick of the last-used lock is at most LastUsedWindow seconds old.
PickInWindow ==
    /\ last_used_account.id # NULL
    /\ as_secs(now.t - last_used_account.at) < LastUsedWindow

\* The accounts returned to the calls of the burst.
BurstAccounts == {id \in TMIds : picked[id] > 0}

\* C37: overlapping get_token(force_rotate = false) calls for a group other
\* than image_gen, without session ids, on a healthy pool right after
\* load_accounts all return the same account: the first call to take the
\* last-used lock picks by round robin, and every call that takes the lock in
\* the 60 seconds after that pick returns the pick and leaves it in place.
C37_BurstSharesOneAccount ==
    /\ [][(BurstCallReturns /\ PoolHealthy) =>
            /\ call'.result # NULL
            /\ call'.result = last_used_account'.id
            /\ last_used_account.id = NULL => call'.via = "round_robin"
            /\ PickInWindow =>
                  call'.via = "last_used" /\ last_used_account' = last_used_account]_vars
    /\ [](now.t < from_secs(LastUsedWindow) => Cardinality(BurstAccounts) <= 1)

\* C37 happens: the call that entered first took the lock second and was handed
\* the account the later call had picked by round robin.
C37_LaterCallReusesPick ==
    /\ call.pc = "done" /\ parked.pc = "done"
    /\ call.n < parked.n
    /\ parked.via = "round_robin"
    /\ call.via = "last_used"
    /\ call.result = parked.result
    /\ picked[call.result] = 2

(***************************************************************************)
(* Properties of get_token beside a reload (SpecTokenManagerReload)        *)
(***************************************************************************)
\* This step is a get_token call that starts while load_accounts reloads a
\* pool that an earlier load filled, the store holding an enabled account
\* before and after.
CallDuringReload ==
    /\ call'.n # call.n
    /\ loading.active
    /\ loading.n > 0
    /\ \E r \in accounts : ~r.disabled
    /\ \E r \in accounts' : ~r.disabled

\* C40: a get_token call that runs while load_accounts reloads the pool, on a
\* store that holds an enabled account before and after, does not fail with
\* "Token pool is empty" and does not select from a pool of which only a part
\* has been inserted.
C40_ReloadIsAtomicForCalls ==
    [][CallDuringReload =>
          /\ call'.err # "empty"
          /\ (loading.cleared /\ loading.rows # {}) => call'.target = NULL]_vars
====
